---------------------------- MODULE Spec2Model ----------------------------
(***************************************************************************)
(* A model of corgi's VectorPool<T> (include/corgi/vector_pool.h): a pool  *)
(* allocator kept as two index-linked lists (used, free) inside one        *)
(* std::vector, with VectorPoolReference handles that carry the unique id  *)
(* stamped on the slot when it was allocated.                              *)
(*                                                                         *)
(* The payload type T is a class with a default constructor (TestStruct in *)
(* unit_tests/vector_pool_test.cpp, Entity, Component<T>::ComponentData):  *)
(* a freshly constructed payload is kDefaultData.                          *)
(*                                                                         *)
(* assert() is modelled as compiled in: a failed assertion ends the run    *)
(* (status becomes the name of the assertion that failed).                 *)
(***************************************************************************)
EXTENDS Integers, Sequences, FiniteSets, TLC

(***************************************************************************)
(* Bounds of the model.                                                    *)
(***************************************************************************)
\* GetNewElement calls whose handle the client keeps.
MaxAllocs == 3
\* Slots of the backing vector beyond the four reserved ones.
MaxSlots == 3
\* Bursts of allocate-and-free (see Churn).
MaxChurns == 1
\* Entities the client holds an EntityRef to.
MaxEntities == 3
\* AddEntity calls that allocate component data.
MaxAdds == 4
\* EntityRefs the client of the entity manager holds.
MaxEntityRefs == 2
\* Elements each registered component allocates.
MaxStoreAdds == 2
\* VectorPoolReferences the client of two pools holds.
MaxHandles == 3

(***************************************************************************)
(* Program constants.                                                      *)
(***************************************************************************)
kFirstUsed == 0
kLastUsed == 1
kFirstFree == 2
kLastFree == 3
kTotalReserved == 4
\* static_cast<size_t>(-1): no index of the vector.
kOutOfBounds == -1
\* The value T's default constructor leaves in a payload.
kDefaultData == 123

kAddToFront == "kAddToFront"
kAddToBack == "kAddToBack"
AllocationLocation == {kAddToFront, kAddToBack}

\* static_cast<ComponentIndex>(-1), ComponentIndex being uint16_t.
kInvalidComponentIndex == 65535
\* static_cast<ComponentId>(-1), ComponentId being uint16_t.
kInvalidComponent == 65535
\* UniqueIdType is uint32_t.  A value v is kept as <<v \div 2^16, v % 2^16>>,
\* so that all of 0 .. 2^32 - 1 is representable.
kHalfWord == 65536
kInvalidId == <<0, 0>>
kFirstId == <<0, 1>>
kMaxId == <<kHalfWord - 1, kHalfWord - 1>>

\* next_unique_id_++ on a uint32_t.
IncId(id) ==
    IF id[2] = kHalfWord - 1
    THEN <<(id[1] + 1) % kHalfWord, 0>>
    ELSE <<id[1], id[2] + 1>>

\* a < b on uint32_t.
IdLess(a, b) == a[1] < b[1] \/ (a[1] = b[1] /\ a[2] < b[2])

MaxSize == kTotalReserved + MaxSlots

VARIABLES
    pool,       \* the VectorPool: elements_, active_count_, next_unique_id_
    refs,       \* the VectorPoolReferences GetNewElement has returned, in order
    status,     \* "ok", or what ended the run
    gRun,       \* history: how the elements now in the pool were allocated
    gState,     \* history: what became of the element refs[i] was issued for
    gData,      \* history: the last value written to refs[i]'s element
    gReissued,  \* history: refs[i]'s unique id has been stamped on a slot again
    nNet,       \* history: allocations minus frees since the last Clear
    nChurns,    \* history: Churn bursts
    last,       \* history: the client's last call and how it ended
    it,         \* the Iterator of the client's loop, and the loop's history
    comp,       \* the Component that owns the pool: its index and its hooks
    mgr,        \* the EntityManager, its components and its client's EntityRefs
    hnd         \* a second pool, and references to either pool

vars == <<pool, refs, status, gRun, gState, gData, gReissued, nNet, nChurns, last,
          it, comp, mgr, hnd>>

(***************************************************************************)
(* std::vector<VectorPoolElement>, as a function on 0 .. size-1.           *)
(***************************************************************************)
VectorPoolElement ==
    [data |-> kDefaultData, next |-> kOutOfBounds, prev |-> kOutOfBounds,
     unique_id |-> kInvalidId]

VecSize(e) == Cardinality(DOMAIN e)

push_back(e, x) ==
    [i \in 0 .. VecSize(e) |-> IF i < VecSize(e) THEN e[i] ELSE x]

resize(e, n) ==
    [i \in 0 .. n - 1 |-> IF i \in DOMAIN e THEN e[i] ELSE VectorPoolElement]

Size(p) == VecSize(p.elements_)

active_count(p) == p.active_count_

(***************************************************************************)
(* The list primitives.  Each returns the pool after the call; the         *)
(* assignments are applied one after the other, as in the source, because  *)
(* `element` and `list_start` are references into elements_.               *)
(***************************************************************************)
\* assert(index < elements_.size() && index >= kTotalReserved)
ListIndexOk(p, index) == index < Size(p) /\ index >= kTotalReserved

\* RemoveFromList that leaves the next element's prev as it was.
RemoveFromList_NoPrev(p, index) ==
    LET e0 == p.elements_
        e1 == [e0 EXCEPT ![e0[index].prev].next = e0[index].next]
    IN  [p EXCEPT !.elements_ = e1]

RemoveFromList(p, index) ==
    LET e0 == p.elements_
        e1 == [e0 EXCEPT ![e0[index].prev].next = e0[index].next]
        e2 == [e1 EXCEPT ![e1[index].next].prev = e1[index].prev]
    IN  [p EXCEPT !.elements_ = e2]

\* AddToListFront that does not point list_start at the new element.
AddToListFront_NoStartLink(p, index, start_index) ==
    LET e0 == p.elements_
        e1 == [e0 EXCEPT ![e0[start_index].next].prev = index]
        e2 == [e1 EXCEPT ![index].prev = start_index]
        e3 == [e2 EXCEPT ![index].next = e2[start_index].next]
    IN  [p EXCEPT !.elements_ = e3]

\* AddToListFront that leaves the prev of the list's old first element.
AddToListFront_NoBackLink(p, index, start_index) ==
    LET e0 == p.elements_
        e2 == [e0 EXCEPT ![index].prev = start_index]
        e3 == [e2 EXCEPT ![index].next = e2[start_index].next]
        e4 == [e3 EXCEPT ![start_index].next = index]
    IN  [p EXCEPT !.elements_ = e4]

AddToListFront(p, index, start_index) ==
    LET e0 == p.elements_
        e1 == [e0 EXCEPT ![e0[start_index].next].prev = index]
        e2 == [e1 EXCEPT ![index].prev = start_index]
        e3 == [e2 EXCEPT ![index].next = e2[start_index].next]
        e4 == [e3 EXCEPT ![start_index].next = index]
    IN  [p EXCEPT !.elements_ = e4]

\* AddToListBack that does not set the new element's prev.
AddToListBack_NoPrevLink(p, index, end_index) ==
    LET e0 == p.elements_
        e1 == [e0 EXCEPT ![e0[end_index].prev].next = index]
        e2 == [e1 EXCEPT ![index].next = end_index]
        e4 == [e2 EXCEPT ![end_index].prev = index]
    IN  [p EXCEPT !.elements_ = e4]

AddToListBack(p, index, end_index) ==
    LET e0 == p.elements_
        e1 == [e0 EXCEPT ![e0[end_index].prev].next = index]
        e2 == [e1 EXCEPT ![index].next = end_index]
        e3 == [e2 EXCEPT ![index].prev = e2[end_index].prev]
        e4 == [e3 EXCEPT ![end_index].prev = index]
    IN  [p EXCEPT !.elements_ = e4]

\* AllocateUniqueId() without the step over kInvalidId.
AllocateUniqueId_NoSkip(p) ==
    [p EXCEPT !.next_unique_id_ = IncId(p.next_unique_id_)]

\* AllocateUniqueId() that steps over kFirstId instead of kInvalidId.
AllocateUniqueId_SkipsOne(p) ==
    LET n1 == IncId(p.next_unique_id_)
        n2 == IF n1 = kFirstId THEN IncId(n1) ELSE n1
    IN  [p EXCEPT !.next_unique_id_ = n2]

\* The pool after AllocateUniqueId(); the id it returns is p.next_unique_id_.
AllocateUniqueId(p) ==
    LET n1 == IncId(p.next_unique_id_)
        n2 == IF n1 = kInvalidId THEN IncId(n1) ELSE n1
    IN  [p EXCEPT !.next_unique_id_ = n2]

\* VectorPoolReference(container, index): captures the slot's unique id.
VectorPoolReference(p, index) ==
    [container_ |-> "pool", index_ |-> index,
     unique_id_ |-> p.elements_[index].unique_id]

\* VectorPoolReference(): refers to nothing.
NullReference == [container_ |-> "nullptr", index_ |-> 0, unique_id_ |-> kInvalidId]

\* A pool that never looks at its free list.
HasFree_Never(p) == FALSE

\* The free list is not empty.
HasFree(p) == p.elements_[kFirstFree].next # kLastFree

\* The slot GetNewElement is about to hand out.
NewElementIndex(p) ==
    IF HasFree(p) THEN p.elements_[kFirstFree].next ELSE Size(p)

\* GetNewElement whose placement new constructs another value than T().
GetNewElementPool_ConstructsOther(p, alloc_location) ==
    LET index == NewElementIndex(p)
        p1 == IF HasFree(p)
              THEN RemoveFromList(p, index)
              ELSE [p EXCEPT !.elements_ = push_back(@, VectorPoolElement)]
        p2 == IF alloc_location = kAddToFront
              THEN AddToListFront(p1, index, kFirstUsed)
              ELSE AddToListBack(p1, index, kLastUsed)
        p3 == [p2 EXCEPT !.active_count_ = @ + 1]
        p4 == [p3 EXCEPT !.elements_[index].data = kDefaultData + 1]
        p5 == [p4 EXCEPT !.elements_[index].unique_id = p4.next_unique_id_]
    IN  AllocateUniqueId(p5)

\* GetNewElement with the two cases of its switch exchanged.
GetNewElementPool_Swapped(p, alloc_location) ==
    LET index == NewElementIndex(p)
        p1 == IF HasFree(p)
              THEN RemoveFromList(p, index)
              ELSE [p EXCEPT !.elements_ = push_back(@, VectorPoolElement)]
        p2 == IF alloc_location = kAddToFront
              THEN AddToListBack(p1, index, kLastUsed)
              ELSE AddToListFront(p1, index, kFirstUsed)
        p3 == [p2 EXCEPT !.active_count_ = @ + 1]
        p4 == [p3 EXCEPT !.elements_[index].data = kDefaultData]
        p5 == [p4 EXCEPT !.elements_[index].unique_id = p4.next_unique_id_]
    IN  AllocateUniqueId(p5)

\* The pool after GetNewElement(alloc_location).
GetNewElementPool(p, alloc_location) ==
    LET index == NewElementIndex(p)
        p1 == IF HasFree(p)
              THEN RemoveFromList(p, index)
              ELSE [p EXCEPT !.elements_ = push_back(@, VectorPoolElement)]
        p2 == IF alloc_location = kAddToFront
              THEN AddToListFront(p1, index, kFirstUsed)
              ELSE AddToListBack(p1, index, kLastUsed)
        p3 == [p2 EXCEPT !.active_count_ = @ + 1]
        p4 == [p3 EXCEPT !.elements_[index].data = kDefaultData]
        p5 == [p4 EXCEPT !.elements_[index].unique_id = p4.next_unique_id_]
    IN  AllocateUniqueId(p5)

\* FreeElement(index) without its active_count_--.
FreeElementPool_KeepsCount(p, index) ==
    LET p1 == [p EXCEPT !.elements_[index].data = kDefaultData]
        p2 == [p1 EXCEPT !.elements_[index].unique_id = kInvalidId]
        p3 == RemoveFromList(p2, index)
    IN  AddToListFront(p3, index, kFirstFree)

\* FreeElement(index) that leaves the slot's unique id in place.
FreeElementPool_KeepsId(p, index) ==
    LET p1 == [p EXCEPT !.elements_[index].data = kDefaultData]
        p3 == RemoveFromList(p1, index)
        p4 == AddToListFront(p3, index, kFirstFree)
    IN  [p4 EXCEPT !.active_count_ = @ - 1]

\* FreeElement(index) that puts the slot at the back of the free list.
FreeElementPool_ToBack(p, index) ==
    LET p1 == [p EXCEPT !.elements_[index].data = kDefaultData]
        p2 == [p1 EXCEPT !.elements_[index].unique_id = kInvalidId]
        p3 == RemoveFromList(p2, index)
        p4 == AddToListBack(p3, index, kLastFree)
    IN  [p4 EXCEPT !.active_count_ = @ - 1]

\* FreeElement(size_t) built without its assertion.
FreeElementAssert_Off(p, index) == TRUE

\* assert(elements_[index].unique_id != kInvalidId) of FreeElement(size_t).
FreeElementAssert(p, index) == p.elements_[index].unique_id # kInvalidId

\* The pool after FreeElement(index), its assertion having passed.
FreeElementPool(p, index) ==
    LET p1 == [p EXCEPT !.elements_[index].data = kDefaultData]
        p2 == [p1 EXCEPT !.elements_[index].unique_id = kInvalidId]
        p3 == RemoveFromList(p2, index)
        p4 == AddToListFront(p3, index, kFirstFree)
    IN  [p4 EXCEPT !.active_count_ = @ - 1]

\* The pool after Clear().
ClearPool(p) ==
    LET e0 == resize(p.elements_, kTotalReserved)
        e1 == [e0 EXCEPT ![kFirstUsed].next = kLastUsed]
        e2 == [e1 EXCEPT ![kLastUsed].prev = kFirstUsed]
        e3 == [e2 EXCEPT ![kFirstFree].next = kLastFree]
        e4 == [e3 EXCEPT ![kLastFree].prev = kFirstFree]
    IN  [p EXCEPT !.elements_ = e4, !.active_count_ = 0]

\* The loop of Reserve: slots current_size .. new_size-1 go to the free list.
RECURSIVE ReserveLoop(_, _, _)
ReserveLoop(p, current_size, new_size) ==
    IF current_size < new_size
    THEN ReserveLoop(
             AddToListFront(
                 [p EXCEPT !.elements_[current_size].unique_id = kInvalidId],
                 current_size, kFirstFree),
             current_size + 1, new_size)
    ELSE p

\* Reserve that resizes the vector and leaves the new slots unlinked.
ReservePool_NoLoop(p, new_size) ==
    IF Size(p) >= new_size
    THEN p
    ELSE [p EXCEPT !.elements_ = resize(@, new_size)]

\* Reserve whose loop starts at the first slot instead of the first new one.
ReservePool_FromFirstSlot(p, new_size) ==
    IF Size(p) >= new_size
    THEN p
    ELSE ReserveLoop([p EXCEPT !.elements_ = resize(@, new_size)],
                     kTotalReserved, new_size)

\* The pool after Reserve(new_size).
ReservePool(p, new_size) ==
    IF Size(p) >= new_size
    THEN p
    ELSE ReserveLoop([p EXCEPT !.elements_ = resize(@, new_size)], Size(p), new_size)

(***************************************************************************)
(* VectorPoolReference's queries.  GetElement(index) is null when index is *)
(* not below elements_.size(), and IsValid reads ->unique_id through it    *)
(* unchecked: that read is undefined, and may crash or yield either answer.*)
(***************************************************************************)
GetElementIsNull(p, index) == ~(index < Size(p))

IsValidOutcomes(p, ref) ==
    IF ref.container_ = "nullptr" THEN {"false"}
    ELSE IF GetElementIsNull(p, ref.index_) THEN {"true", "false", "crash"}
    ELSE IF p.elements_[ref.index_].unique_id = ref.unique_id_ THEN {"true"}
    ELSE {"false"}

\* ToPointer(): the slot whose payload the pointer addresses, or null.
PtrTo(index) == [kind |-> "data", index |-> index]
PtrNull == [kind |-> "nullptr", index |-> kOutOfBounds]
PtrCrash == [kind |-> "crash", index |-> kOutOfBounds]

ToPointerOutcomes(p, ref) ==
    { IF o = "true" THEN PtrTo(ref.index_)
      ELSE IF o = "false" THEN PtrNull ELSE PtrCrash : o \in IsValidOutcomes(p, ref) }

(***************************************************************************)
(* The walk of the used list: begin(), operator++ until end().             *)
(***************************************************************************)
begin(p) == p.elements_[kFirstUsed].next
end(p) == kLastUsed

RECURSIVE WalkFrom(_, _, _, _)
WalkFrom(p, index, stop, fuel) ==
    IF index = stop \/ fuel = 0 \/ index \notin DOMAIN p.elements_
    THEN <<>>
    ELSE <<index>> \o WalkFrom(p, p.elements_[index].next, stop, fuel - 1)

\* The slots a loop from begin() to end() visits, in order.
UsedWalk(p) == WalkFrom(p, begin(p), end(p), Size(p) + 1)

\* The slots of the free list, from its head.
FreeWalk(p) == WalkFrom(p, p.elements_[kFirstFree].next, kLastFree, Size(p) + 1)

Range(s) == {s[i] : i \in 1 .. Len(s)}

(***************************************************************************)
(* The state after construction: VectorPool() runs Clear() on an empty     *)
(* vector; the client holds no reference yet.                              *)
(***************************************************************************)
\* A record of a call: the operation, its alloc_location or its numeric
\* argument (an index, a size, the number of a reference), and how it ended.
Call(op, loc, arg, res) == [op |-> op, loc |-> loc, arg |-> arg, res |-> res]

NewPool ==
    ClearPool([elements_ |-> resize(<<>>, 0), active_count_ |-> 0,
               next_unique_id_ |-> kFirstId])

\* No loop is running.
NoIter ==
    [mode |-> "none", index_ |-> kOutOfBounds, visited |-> <<>>, start |-> <<>>,
     freed |-> {}]

\* The entities, by Entity::entity_id().
Entities == 1 .. MaxEntities

\* No hook has been called by the last call.
NoHook ==
    [name |-> "none", entity |-> 0, has_data |-> FALSE, ptr |-> PtrNull,
     holder |-> 0, data |-> kDefaultData, active |-> 0, calls |-> 0]

\* Component(): component_data_ (the pool) and component_index_lookup_ are
\* empty.  `entity` is ComponentData::entity of every slot (0: an empty
\* EntityRef), kept beside the pool, whose payload is ComponentData::data;
\* `valid` are the entities whose EntityRef is valid.  `bulk` is the number
\* of slots of component_data_ that the model does not write out (see
\* AddManyEntities).
NewComponent ==
    [component_index_lookup_ |-> [e \in {} |-> 0],
     entity |-> [index \in 0 .. MaxSize - 1 |-> 0],
     valid  |-> Entities,
     hook   |-> NoHook,
     result |-> PtrNull,
     adds   |-> 0,
     bulk   |-> 0,
     gSlot  |-> [e \in Entities |-> kOutOfBounds]]

\* The components the client has: objects of three classes derived from
\* Component<T>, one of each.
Components == {"A", "B"}

\* A Component<T> that holds nothing, as RegisterComponent finds it.
NewStore ==
    [component_data_ |-> NewPool,
     component_index_lookup_ |-> [e \in {} |-> 0],
     entity |-> [index \in 0 .. MaxSize - 1 |-> 0],
     bulk   |-> 0,
     inits  |-> 0]

\* No call of the EntityManager has told the client anything yet.
NoReport == [kind |-> "none", ids |-> <<>>]

\* EntityManager(): no entity, no component registered, nothing to delete;
\* ComponentIdLookup<T>::component_id is kInvalidComponent for every class.
\* `marked` is Entity::marked_for_deletion_ of every slot of entities_, kept
\* beside the pool; `store` are the client's component objects; `refs` are
\* the EntityRefs the client holds.
NewManager ==
    [entities_ |-> NewPool,
     marked |-> [index \in 0 .. MaxSize - 1 |-> FALSE],
     components_ |-> <<>>,
     component_id |-> [t \in Components |-> kInvalidComponent],
     entities_to_delete_ |-> <<>>,
     store |-> [t \in Components |-> NewStore],
     refs |-> <<>>,
     report |-> NoReport,
     bulk |-> 0,
     gMarkedAndAttached |-> {}]

\* A second VectorPool of the same element type, and the
\* VectorPoolReferences to either pool the client holds.
NewHandles == [other |-> NewPool, held |-> <<>>]

Init ==
    /\ pool = NewPool
    /\ refs = <<>>
    /\ status = "ok"
    /\ gRun = "none"
    /\ gState = <<>>
    /\ gData = <<>>
    /\ gReissued = <<>>
    /\ nNet = 0
    /\ nChurns = 0
    /\ last = Call("none", "", kOutOfBounds, "")
    /\ it = NoIter
    /\ comp = NewComponent
    /\ mgr = NewManager
    /\ hnd = NewHandles

(***************************************************************************)
(* The client's calls.  A failed assertion or a crash ends the process:    *)
(* what is left is the status alone (there is no pool any more, and the    *)
(* other variables are given their initial values); no call follows.       *)
(***************************************************************************)
Ended(why, call) ==
    /\ status' = why
    /\ last' = call
    /\ pool' = NewPool
    /\ refs' = <<>>
    /\ gRun' = "none"
    /\ gState' = <<>>
    /\ gData' = <<>>
    /\ gReissued' = <<>>
    /\ nNet' = 0
    /\ nChurns' = 0
    /\ it' = NoIter
    /\ comp' = NewComponent
    /\ mgr' = NewManager
    /\ hnd' = NewHandles

\* The reference the client passes: one it holds, or (0) an empty one.
Ref(i) == IF i = 0 THEN NullReference ELSE refs[i]

\* gState[i]: "live" until FreeElement frees refs[i]'s element ("freed") or
\* Clear() drops every element ("cleared").
FreedAfter(index) ==
    [j \in 1 .. Len(refs) |->
        IF gState[j] = "live" /\ refs[j].index_ = index THEN "freed" ELSE gState[j]]

\* gRun: "none" while the pool is empty; kAddToFront or kAddToBack while every
\* call since the pool was last empty was a GetNewElement with that location;
\* "mixed" otherwise.
RunAfterAlloc(alloc_location) ==
    IF active_count(pool) = 0 \/ gRun = alloc_location THEN alloc_location ELSE "mixed"

RunAfterFree(p) == IF active_count(p) = 0 THEN "none" ELSE "mixed"

\* The ids stamped while next_unique_id_ went from `from` to `to` (at least one
\* allocation, fewer than a whole round of the counter) include `id`.
Stamped(id, from, to) ==
    IF IdLess(from, to)
    THEN ~IdLess(id, from) /\ IdLess(id, to)
    ELSE ~IdLess(id, from) \/ IdLess(id, to)

\* gReissued after allocations that took next_unique_id_ from `from` to `to`.
ReissuedAfter(from, to) ==
    [j \in 1 .. Len(refs) |-> gReissued[j] \/ Stamped(refs[j].unique_id_, from, to)]

\* The asserts of RemoveFromList and AddToListFront/Back inside GetNewElement.
GetNewElementAsserts(p) ==
    /\ HasFree(p) => ListIndexOk(p, NewElementIndex(p))
    /\ NewElementIndex(p) >= kTotalReserved

\* ref = pool.GetNewElement(alloc_location)
GetNewElement(alloc_location) ==
    /\ status = "ok"
    /\ Len(refs) < MaxAllocs
    /\ HasFree(pool) \/ Size(pool) < MaxSize
    /\ IF GetNewElementAsserts(pool)
       THEN /\ pool' = GetNewElementPool(pool, alloc_location)
            /\ refs' = Append(refs, VectorPoolReference(pool', NewElementIndex(pool)))
            /\ gRun' = RunAfterAlloc(alloc_location)
            /\ gState' = Append(gState, "live")
            /\ gData' = Append(gData, kDefaultData)
            /\ gReissued' = Append(ReissuedAfter(pool.next_unique_id_, pool'.next_unique_id_),
                                   FALSE)
            /\ nNet' = nNet + 1
            /\ last' = Call("GetNewElement", alloc_location, kOutOfBounds, "allocated")
            /\ UNCHANGED <<status, nChurns, it, comp, mgr, hnd>>
       ELSE Ended("assert: list index",
                  Call("GetNewElement", alloc_location, kOutOfBounds, "assert"))

\* What FreeElement(size_t index) does to the state, called as `op` with
\* the argument `arg`.
FreeElementBody(index, op, arg) ==
    IF FreeElementAssert(pool, index)
    THEN /\ pool' = FreeElementPool(pool, index)
         /\ gState' = FreedAfter(index)
         /\ gRun' = RunAfterFree(pool')
         /\ nNet' = nNet - 1
         /\ last' = Call(op, "", arg, "freed")
         /\ UNCHANGED <<refs, status, gData, gReissued, nChurns, it, comp, mgr, hnd>>
    ELSE Ended("assert: FreeElement", Call(op, "", arg, "assert"))

\* pool.FreeElement(index), index a slot of the vector.
FreeElementIndex(index) ==
    /\ status = "ok"
    /\ index \in DOMAIN pool.elements_
    /\ FreeElementBody(index, "FreeElement(index)", index)

\* pool.FreeElement(ref): frees only if ref.IsValid().
FreeElementRef(i) ==
    /\ status = "ok"
    /\ i \in 0 .. Len(refs)
    /\ \E o \in IsValidOutcomes(pool, Ref(i)) :
          CASE o = "true" /\ ~GetElementIsNull(pool, Ref(i).index_) ->
                   FreeElementBody(Ref(i).index_, "FreeElement(ref)", i)
            [] o = "false" ->
                   /\ last' = Call("FreeElement(ref)", "", i, "ignored")
                   /\ UNCHANGED <<pool, refs, status, gRun, gState, gData, gReissued,
                                  nNet, nChurns, it, comp, mgr, hnd>>
            [] OTHER -> Ended("crash", Call("FreeElement(ref)", "", i, "crash"))

\* The value the client writes through its i-th reference (the unit tests
\* write the element's number).
ValueOf(i) == i

\* ref->value = v, through VectorPoolReference::operator->, on the reference
\* the client received last (or an empty one).
SetData(i, v) ==
    /\ status = "ok"
    /\ i \in {0, Len(refs)}
    /\ \E o \in IsValidOutcomes(pool, Ref(i)) :
          CASE o = "true" /\ ~GetElementIsNull(pool, Ref(i).index_) ->
                   /\ pool' = [pool EXCEPT !.elements_[Ref(i).index_].data = v]
                   /\ gData' = [j \in 1 .. Len(refs) |->
                                   IF gState[j] = "live" /\ refs[j].index_ = Ref(i).index_
                                   THEN v ELSE gData[j]]
                   /\ last' = Call("SetData", "", i, "written")
                   /\ UNCHANGED <<refs, status, gRun, gState, gReissued, nNet, nChurns,
                                  it, comp, mgr, hnd>>
            [] o = "false" -> Ended("assert: operator->", Call("SetData", "", i, "assert"))
            [] OTHER -> Ended("crash", Call("SetData", "", i, "crash"))

\* *ref, through VectorPoolReference::operator*, on any reference the client
\* holds (or an empty one): a read of the payload.
Deref(i) ==
    /\ status = "ok"
    /\ i \in 0 .. Len(refs)
    /\ \E o \in IsValidOutcomes(pool, Ref(i)) :
          CASE o = "true" /\ ~GetElementIsNull(pool, Ref(i).index_) ->
                   /\ last' = Call("operator*", "", i, "read")
                   /\ UNCHANGED <<pool, refs, status, gRun, gState, gData,
                                  gReissued, nNet, nChurns, it, comp, mgr, hnd>>
            [] o = "false" -> Ended("assert: operator*", Call("operator*", "", i, "assert"))
            [] OTHER -> Ended("crash", Call("operator*", "", i, "crash"))

\* The sizes the client asks Reserve for: every size that grows the vector,
\* and two that do not (0 and the current size).
ReserveSizes(p) == {0, Size(p)} \cup {n \in 0 .. MaxSize : n > Size(p)}

\* pool.Reserve(new_size)
Reserve(new_size) ==
    /\ status = "ok"
    /\ new_size \in ReserveSizes(pool)
    /\ pool' = ReservePool(pool, new_size)
    /\ last' = Call("Reserve", "", new_size, "done")
    /\ UNCHANGED <<refs, status, gRun, gState, gData, gReissued, nNet, nChurns,
                   it, comp, mgr, hnd>>

\* pool.Clear(): every element is gone.
Clear ==
    /\ status = "ok"
    /\ pool' = ClearPool(pool)
    /\ gState' = [j \in 1 .. Len(refs) |->
                      IF gState[j] = "live" THEN "cleared" ELSE gState[j]]
    /\ gRun' = "none"
    /\ nNet' = 0
    /\ last' = Call("Clear", "", kOutOfBounds, "done")
    /\ UNCHANGED <<refs, status, gData, gReissued, nChurns, it, comp, mgr, hnd>>

\* The values next_unique_id_ is driven to by a burst.
ChurnTargets == {kMaxId}

\* A burst: pool.FreeElement(pool.GetNewElement(alloc_location)) repeated
\* (at least once) until next_unique_id_ is `target`; the client keeps none of
\* the references.  Every pair leaves the lists as the first one did and
\* advances the counter by one id, and the counter runs through every id but
\* kInvalidId, so the burst ends.
Churn(alloc_location, target) ==
    /\ status = "ok"
    /\ nChurns < MaxChurns
    /\ HasFree(pool) \/ Size(pool) < MaxSize
    /\ target # pool.next_unique_id_
    /\ GetNewElementAsserts(pool)
    /\ pool' = [FreeElementPool(GetNewElementPool(pool, alloc_location),
                                NewElementIndex(pool))
                   EXCEPT !.next_unique_id_ = target]
    /\ gReissued' = ReissuedAfter(pool.next_unique_id_, target)
    /\ nChurns' = nChurns + 1
    /\ last' = Call("Churn", alloc_location, kOutOfBounds, "done")
    /\ UNCHANGED <<refs, status, gRun, gState, gData, nNet, it, comp, mgr, hnd>>

\* The pool under its whole interface, the counter far from its maximum.
Next ==
    \/ \E alloc_location \in AllocationLocation : GetNewElement(alloc_location)
    \/ \E index \in 0 .. MaxSize - 1 : FreeElementIndex(index)
    \/ \E i \in 0 .. MaxAllocs : FreeElementRef(i)
    \/ \E i \in 0 .. MaxAllocs : SetData(i, ValueOf(i))
    \/ \E i \in 0 .. MaxAllocs : Deref(i)
    \/ \E new_size \in 0 .. MaxSize : Reserve(new_size)
    \/ Clear

Spec == Init /\ [][Next]_vars

\* Allocation and freeing over a lifetime long enough for next_unique_id_ to
\* reach its maximum and start again.
NextWrap ==
    \/ \E alloc_location \in AllocationLocation : GetNewElement(alloc_location)
    \/ \E index \in 0 .. MaxSize - 1 : FreeElementIndex(index)
    \/ \E i \in 0 .. MaxAllocs : FreeElementRef(i)
    \/ \E i \in 0 .. MaxAllocs : Deref(i)
    \/ \E new_size \in 0 .. MaxSize : Reserve(new_size)
    \/ Clear
    \/ \E alloc_location \in AllocationLocation, target \in ChurnTargets :
          Churn(alloc_location, target)

SpecWrap == Init /\ [][NextWrap]_vars

(***************************************************************************)
(* Loops over the pool with an Iterator:                                   *)
(*     for (iter = begin(); iter != end(); ) { ++iter  or                  *)
(*                                             iter = FreeElement(iter) }  *)
(* The code is single-threaded: while a loop runs, its steps are the only  *)
(* calls.  Kind "walk" takes either step each time round, kind "freeAll"   *)
(* frees every element (the loop of Component::ClearComponentData).        *)
(***************************************************************************)
LoopKinds == {"walk", "freeAll"}

\* Iterator::operator++ : the index the iterator moves to.
IteratorIncrement(p, index) == p.elements_[index].next

\* Iterator::operator-- : the index the iterator moves to.
IteratorDecrement(p, index) == p.elements_[index].prev

\* FreeElement(Iterator) that steps the iterator after freeing its element.
FreeElementIterResult_StepsAfterFree(p, index) ==
    IteratorIncrement(FreeElementPool(p, index), index)

\* The iterator FreeElement(Iterator) returns: `temp = iter++` steps it before
\* the element is freed.
FreeElementIterResult(p, index) == IteratorIncrement(p, index)

\* iter = pool.begin()
LoopBegin(kind) ==
    /\ status = "ok"
    /\ it.mode = "none"
    /\ it' = [mode |-> kind, index_ |-> begin(pool), visited |-> <<>>,
              start |-> UsedWalk(pool), freed |-> {}]
    /\ last' = Call("begin", "", kOutOfBounds, kind)
    /\ UNCHANGED <<pool, refs, status, gRun, gState, gData, gReissued, nNet,
                   nChurns, comp, mgr, hnd>>

\* ++iter
LoopIncrement ==
    /\ status = "ok"
    /\ it.mode = "walk"
    /\ it.index_ # end(pool)
    /\ it' = [it EXCEPT !.index_ = IteratorIncrement(pool, it.index_),
                        !.visited = Append(@, it.index_)]
    /\ last' = Call("operator++", "", it.index_, "stepped")
    /\ UNCHANGED <<pool, refs, status, gRun, gState, gData, gReissued, nNet,
                   nChurns, comp, mgr, hnd>>

\* iter = pool.FreeElement(iter)
FreeElementIter ==
    /\ status = "ok"
    /\ it.mode \in LoopKinds
    /\ it.index_ # end(pool)
    /\ IF FreeElementAssert(pool, it.index_)
       THEN /\ pool' = FreeElementPool(pool, it.index_)
            /\ it' = [it EXCEPT !.index_ = FreeElementIterResult(pool, it.index_),
                                !.visited = Append(@, it.index_),
                                !.freed = @ \cup {it.index_}]
            /\ gState' = FreedAfter(it.index_)
            /\ gRun' = RunAfterFree(pool')
            /\ nNet' = nNet - 1
            /\ last' = Call("FreeElement(iter)", "", it.index_, "freed")
            /\ UNCHANGED <<refs, status, gData, gReissued, nChurns, comp, mgr, hnd>>
       ELSE Ended("assert: FreeElement",
                  Call("FreeElement(iter)", "", it.index_, "assert"))

\* iter == end(): the loop is left.
LoopEnd ==
    /\ status = "ok"
    /\ it.mode \in LoopKinds
    /\ it.index_ = end(pool)
    /\ it' = NoIter
    /\ last' = Call("end", "", kOutOfBounds, it.mode)
    /\ UNCHANGED <<pool, refs, status, gRun, gState, gData, gReissued, nNet,
                   nChurns, comp, mgr, hnd>>

LoopStep == LoopIncrement \/ FreeElementIter \/ LoopEnd

NextIter ==
    \/ it.mode = "none" /\ \E alloc_location \in AllocationLocation :
                               GetNewElement(alloc_location)
    \/ it.mode = "none" /\ \E index \in 0 .. MaxSize - 1 : FreeElementIndex(index)
    \/ \E kind \in LoopKinds : LoopBegin(kind)
    \/ LoopIncrement
    \/ FreeElementIter
    \/ LoopEnd

\* A loop that has begun goes on: nothing else runs meanwhile.
SpecIter == Init /\ [][NextIter]_vars /\ WF_vars(LoopStep)

(***************************************************************************)
(* Component<T>: the pool is its component_data_, a VectorPool of          *)
(* ComponentData {EntityRef entity; T data}.  InitEntity and CleanupEntity *)
(* are the hooks of the derived class; what a hook can see of the          *)
(* component when it is called is recorded in comp.hook.                   *)
(*                                                                         *)
(* A component that holds very many entities is written with most of its   *)
(* pool left out: after AddManyEntities, c.bulk further entities own the   *)
(* elements kTotalReserved .. kTotalReserved + c.bulk - 1 of               *)
(* component_data_, which stay in the used list, in this order, for the    *)
(* rest of the run; `pool` holds the sentinels and the elements after      *)
(* them, the used list with that stretch taken out, and active_count_      *)
(* less c.bulk.  GetNewElement and FreeElement on the elements written out *)
(* act on `pool` as on the whole pool.                                     *)
(***************************************************************************)
\* The entities AddManyEntities adds: the next element of the pool is then
\* number kInvalidComponentIndex.
BulkEntities == kInvalidComponentIndex - kTotalReserved

\* The index in component_data_ of the element written as `slot` in `pool`.
PoolIndex(c, slot) == IF slot < kTotalReserved THEN slot ELSE slot + c.bulk

\* The element of `pool` that index `index` of component_data_ is written
\* as (the elements left out are not written at all).
SlotOf(c, index) ==
    CASE index < kTotalReserved -> index
      [] index >= kTotalReserved + c.bulk -> index - c.bulk

\* component_data_.Size()
PoolSize(p, c) == Size(p) + c.bulk

\* component_data_.active_count()
PoolActiveCount(p, c) == active_count(p) + c.bulk

\* static_cast<ComponentIndex>(index)
ToComponentIndex(index) == index % (kInvalidComponentIndex + 1)

\* entity->entity_id() goes through VectorPoolReference::operator->, which
\* asserts that the EntityRef is valid.
EntityIsValid(c, entity) == entity \in c.valid

\* component_index_lookup_[key] = value
MapPut(map, key, value) ==
    [k \in DOMAIN map \cup {key} |-> IF k = key THEN value ELSE map[k]]

\* component_index_lookup_.erase(key)
MapErase(map, key) == [k \in DOMAIN map \ {key} |-> map[k]]

GetComponentDataIndex(c, entity) ==
    IF entity \in DOMAIN c.component_index_lookup_
    THEN c.component_index_lookup_[entity]
    ELSE kInvalidComponentIndex

HasDataForEntity(c, entity) ==
    GetComponentDataIndex(c, entity) # kInvalidComponentIndex

\* GetComponentData(size_t data_index)
GetComponentDataAt(p, c, data_index) ==
    IF data_index = kInvalidComponentIndex THEN PtrNull
    ELSE IF data_index < PoolSize(p, c) THEN PtrTo(SlotOf(c, data_index))
    ELSE [kind |-> "assert", index |-> kOutOfBounds]

\* GetComponentData(const EntityRef& entity), and GetComponentDataAsVoid
GetComponentData(p, c, entity) ==
    LET data_index == GetComponentDataIndex(c, entity)
    IN  IF data_index >= PoolSize(p, c) THEN PtrNull
        ELSE GetComponentDataAt(p, c, data_index)

\* What a hook called for `entity` finds in the component.
HookCall(name, p, c, entity) ==
    LET ptr == GetComponentData(p, c, entity)
    IN  [name |-> name, entity |-> entity,
         has_data |-> HasDataForEntity(c, entity),
         ptr |-> ptr,
         holder |-> IF ptr.kind = "data" THEN c.entity[ptr.index] ELSE 0,
         data |-> IF ptr.kind = "data" THEN p.elements_[ptr.index].data
                  ELSE kDefaultData,
         active |-> PoolActiveCount(p, c),
         calls |-> 1]

\* AddEntity(entity, alloc_location)
AddEntityBody(entity, alloc_location, op) ==
    IF ~EntityIsValid(comp, entity)
    THEN Ended("assert: operator->", Call(op, alloc_location, entity, "assert"))
    ELSE IF HasDataForEntity(comp, entity)
    THEN /\ comp' = [comp EXCEPT !.result = GetComponentData(pool, comp, entity),
                                 !.hook = NoHook]
         /\ last' = Call(op, alloc_location, entity, "existing")
         /\ UNCHANGED <<pool, refs, status, gRun, gState, gData, gReissued, nNet,
                        nChurns, it, mgr, hnd>>
    ELSE IF ~GetNewElementAsserts(pool)
    THEN Ended("assert: list index", Call(op, alloc_location, entity, "assert"))
    ELSE LET slot  == NewElementIndex(pool)
             p1    == GetNewElementPool(pool, alloc_location)
             index == ToComponentIndex(PoolIndex(comp, slot))
             c1    == [comp EXCEPT
                          !.entity[slot] = 0,
                          !.component_index_lookup_ = MapPut(@, entity, index)]
         IN  IF ~(index < PoolSize(p1, comp))
             THEN Ended("assert: GetElementData",
                        Call(op, alloc_location, entity, "assert"))
             ELSE LET c2 == [c1 EXCEPT !.entity[SlotOf(comp, index)] = entity]
                  IN  /\ pool' = p1
                      /\ comp' = [c2 EXCEPT
                                     !.hook = HookCall("InitEntity", p1, c2, entity),
                                     !.result = PtrTo(SlotOf(comp, index)),
                                     !.adds = @ + 1,
                                     !.gSlot[entity] = slot]
                      /\ gRun' = RunAfterAlloc(alloc_location)
                      /\ nNet' = nNet + 1
                      /\ last' = Call(op, alloc_location, entity, "added")
                      /\ UNCHANGED <<refs, status, gState, gData, gReissued,
                                     nChurns, it, mgr, hnd>>

AddEntityEnabled(entity) ==
    /\ status = "ok"
    /\ entity \in Entities
    /\ \/ ~EntityIsValid(comp, entity)
       \/ HasDataForEntity(comp, entity)
       \/ comp.adds < MaxAdds /\ (HasFree(pool) \/ Size(pool) < MaxSize)

\* component.AddEntity(entity): at the back.
AddEntity(entity) ==
    /\ AddEntityEnabled(entity)
    /\ AddEntityBody(entity, kAddToBack, "AddEntity(entity)")

\* component.AddEntity(entity, alloc_location)
AddEntityAt(entity, alloc_location) ==
    /\ AddEntityEnabled(entity)
    /\ AddEntityBody(entity, alloc_location, "AddEntity(entity, alloc_location)")

\* RemoveEntity without its assertion (NDEBUG).
RemoveEntityAssert_Off(c, entity) == TRUE

\* assert(HasDataForEntity(entity)) of RemoveEntity(EntityRef&).
RemoveEntityAssert(c, entity) == HasDataForEntity(c, entity)

\* component.RemoveEntity(entity)
RemoveEntity(entity) ==
    /\ status = "ok"
    /\ entity \in Entities
    /\ IF ~EntityIsValid(comp, entity)
       THEN Ended("assert: operator->", Call("RemoveEntity", "", entity, "assert"))
       ELSE IF ~RemoveEntityAssert(comp, entity)
       THEN Ended("assert: RemoveEntity", Call("RemoveEntity", "", entity, "assert"))
       ELSE LET index == GetComponentDataIndex(comp, entity)
            IN  IF ~(index < PoolSize(pool, comp))
                THEN Ended("crash", Call("RemoveEntity", "", entity, "crash"))
                ELSE IF ~FreeElementAssert(pool, SlotOf(comp, index))
                THEN Ended("assert: FreeElement",
                           Call("RemoveEntity", "", entity, "assert"))
                ELSE /\ pool' = FreeElementPool(pool, SlotOf(comp, index))
                     /\ comp' = [comp EXCEPT
                                    !.hook = HookCall("CleanupEntity", pool, comp, entity),
                                    !.entity[SlotOf(comp, index)] = 0,
                                    !.component_index_lookup_ = MapErase(@, entity),
                                    !.result = PtrNull,
                                    !.gSlot[entity] = kOutOfBounds]
                     /\ gRun' = RunAfterFree(pool')
                     /\ nNet' = nNet - 1
                     /\ last' = Call("RemoveEntity", "", entity, "removed")
                     /\ UNCHANGED <<refs, status, gState, gData, gReissued,
                                    nChurns, it, mgr, hnd>>

\* component.GetComponentData(entity) (GetComponentDataAsVoid returns the same
\* pointer as void*).
QueryComponentData(entity) ==
    /\ status = "ok"
    /\ entity \in Entities
    /\ IF ~EntityIsValid(comp, entity)
       THEN Ended("assert: operator->",
                  Call("GetComponentData", "", entity, "assert"))
       ELSE /\ comp' = [comp EXCEPT !.result = GetComponentData(pool, comp, entity),
                                    !.hook = NoHook]
            /\ last' = Call("GetComponentData", "", entity,
                            IF GetComponentData(pool, comp, entity) = PtrNull
                            THEN "null" ELSE "data")
            /\ UNCHANGED <<pool, refs, status, gRun, gState, gData, gReissued,
                           nNet, nChurns, it, mgr, hnd>>

\* component.GetComponentData(entity)->value = v, for an entity with data.
WriteComponentData(entity, v) ==
    /\ status = "ok"
    /\ entity \in Entities
    /\ EntityIsValid(comp, entity)
    /\ GetComponentData(pool, comp, entity).kind = "data"
    /\ pool' = [pool EXCEPT
                  !.elements_[GetComponentData(pool, comp, entity).index].data = v]
    /\ comp' = [comp EXCEPT !.result = GetComponentData(pool, comp, entity),
                            !.hook = NoHook]
    /\ last' = Call("WriteComponentData", "", entity, "written")
    /\ UNCHANGED <<refs, status, gRun, gState, gData, gReissued, nNet, nChurns, it, mgr, hnd>>

\* The entity is deleted from the entity pool while the component is not
\* told: every EntityRef to it is stale from now on.
EntityDeleted(entity) ==
    /\ status = "ok"
    /\ entity \in comp.valid
    /\ comp' = [comp EXCEPT !.valid = @ \ {entity}, !.hook = NoHook]
    /\ last' = Call("EntityDeleted", "", entity, "done")
    /\ UNCHANGED <<pool, refs, status, gRun, gState, gData, gReissued, nNet,
                   nChurns, it, mgr, hnd>>

\* component.AddEntity(entity) for BulkEntities entities, none of which is
\* looked at again, on a component that is new: they get the elements
\* kTotalReserved .. kInvalidComponentIndex - 1, in this order, and as many
\* unique ids.
AddManyEntities ==
    /\ status = "ok"
    /\ pool = NewPool
    /\ comp.adds = 0 /\ comp.bulk = 0
    /\ pool' = [pool EXCEPT
                  !.next_unique_id_ = <<@[1], @[2] + BulkEntities>>]
    /\ comp' = [comp EXCEPT !.bulk = BulkEntities, !.hook = NoHook,
                            !.result = PtrNull]
    /\ last' = Call("AddManyEntities", "", BulkEntities, "added")
    /\ UNCHANGED <<refs, status, gRun, gState, gData, gReissued, nNet, nChurns, it, mgr, hnd>>

NextComponent ==
    \/ AddManyEntities
    \/ \E entity \in Entities : AddEntity(entity)
    \/ \E entity \in Entities, alloc_location \in AllocationLocation :
          AddEntityAt(entity, alloc_location)
    \/ \E entity \in Entities : RemoveEntity(entity)
    \/ \E entity \in Entities : QueryComponentData(entity)
    \/ \E entity \in Entities : WriteComponentData(entity, ValueOf(entity))
    \/ \E entity \in Entities : EntityDeleted(entity)

SpecComponent == Init /\ [][NextComponent]_vars

(***************************************************************************)
(* Removal through an iterator of the component, and ClearComponentData(), *)
(* which removes every element that way.                                   *)
(***************************************************************************)
\* A returning call of the component, or the assertion it ended in.
Removal(why, p, c) == [status |-> why, pool |-> p, comp |-> c]

\* RemoveEntity(iter) with iter at `slot` of the used list: the entity is
\* read from the element, CleanupEntity is called, the element is freed,
\* and then entity->entity_id() (which asserts that the EntityRef is valid)
\* is erased from component_index_lookup_.
RemoveEntityIterator(p, c, slot) ==
    LET entity == c.entity[slot]
    IN  IF ~FreeElementAssert(p, slot) THEN Removal("assert: FreeElement", p, c)
        ELSE IF ~EntityIsValid(c, entity) THEN Removal("assert: operator->", p, c)
        ELSE Removal("ok", FreeElementPool(p, slot),
                     [c EXCEPT
                         !.hook = HookCall("CleanupEntity", p, c, entity),
                         !.entity[slot] = 0,
                         !.component_index_lookup_ = MapErase(@, entity),
                         !.result = PtrNull,
                         !.gSlot[entity] = kOutOfBounds])

\* for (iter = begin(); iter != end(); iter = RemoveEntity(iter)) {}
RECURSIVE ClearComponentDataFrom(_, _)
ClearComponentDataFrom(p, c) ==
    IF begin(p) = end(p) THEN Removal("ok", p, c)
    ELSE LET r == RemoveEntityIterator(p, c, begin(p))
         IN  IF r.status # "ok" THEN r
             ELSE ClearComponentDataFrom(r.pool, r.comp)

\* The call returns with the component as r has it, or ends as r says.
ComponentCall(r, call) ==
    IF r.status # "ok" THEN Ended(r.status, [call EXCEPT !.res = "assert"])
    ELSE /\ pool' = r.pool
         /\ comp' = r.comp
         /\ gRun' = RunAfterFree(r.pool)
         /\ nNet' = nNet - (active_count(pool) - active_count(r.pool))
         /\ last' = call
         /\ UNCHANGED <<refs, status, gState, gData, gReissued, nChurns, it,
                        mgr, hnd>>

\* component.RemoveEntity(iter), iter at an element of the component.
RemoveEntityIter(slot) ==
    /\ status = "ok"
    /\ slot \in Range(UsedWalk(pool))
    /\ ComponentCall(RemoveEntityIterator(pool, comp, slot),
                     Call("RemoveEntity(iter)", "", slot, "removed"))

\* component.ClearComponentData(), on a component all of whose elements
\* are written out.
ClearComponentData ==
    /\ status = "ok"
    /\ comp.bulk = 0
    /\ ComponentCall(ClearComponentDataFrom(pool, comp),
                     Call("ClearComponentData", "", active_count(pool), "cleared"))

NextIndex ==
    \/ AddManyEntities
    \/ \E entity \in Entities : AddEntity(entity)
    \/ \E entity \in Entities, alloc_location \in AllocationLocation :
          AddEntityAt(entity, alloc_location)
    \/ \E entity \in Entities : RemoveEntity(entity)
    \/ \E slot \in 0 .. MaxSize - 1 : RemoveEntityIter(slot)
    \/ ClearComponentData
    \/ \E entity \in Entities : EntityDeleted(entity)

SpecIndex == Init /\ [][NextIndex]_vars

(***************************************************************************)
(* EntityManager.  Its entities_ is a VectorPool<Entity>, an EntityRef a   *)
(* VectorPoolReference into it; components_ are the registered components  *)
(* in registration order.  The member functions that are only declared in  *)
(* entity_manager.h are written after the specification's description of   *)
(* them.  A component is written as a record with its component_data_, its *)
(* component_index_lookup_ and, beside the pool, ComponentData::entity of   *)
(* every slot (the entity_id of the entity, 0 for an empty EntityRef).     *)
(***************************************************************************)
\* entity->entity_id(): one number for every entity the manager allocates.
entity_id(ref) == ref.unique_id_[1] * kHalfWord + ref.unique_id_[2]

\* The EntityRef the client passes: one it holds, or (0) an empty one.
EntityRefOf(m, i) == IF i = 0 THEN NullReference ELSE m.refs[i]

\* entity.IsValid(), for an EntityRef whose index is inside the vector of
\* entities_ (as it is wherever Clear() is not among the calls made).
EntityRefIsValid(m, ref) == IsValidOutcomes(m.entities_, ref) = {"true"}

\* What a call gives back: the manager (or component) after it, and whether
\* it returned ("ok") or in which assertion it ended.
Outcome(why, after) == [status |-> why, after |-> after]

\* component->AddEntityGenerically(entity), that is AddEntity(entity), of the
\* component s, for the entity with this entity_id.
AddEntityGenerically(s, entity) ==
    IF HasDataForEntity(s, entity) THEN Outcome("ok", s)
    ELSE IF ~GetNewElementAsserts(s.component_data_)
    THEN Outcome("assert: list index", s)
    ELSE LET slot  == NewElementIndex(s.component_data_)
             p1    == GetNewElementPool(s.component_data_, kAddToBack)
             index == ToComponentIndex(PoolIndex(s, slot))
             s1    == [s EXCEPT
                          !.component_data_ = p1,
                          !.entity[slot] = 0,
                          !.component_index_lookup_ = MapPut(@, entity, index)]
         IN  IF ~(index < PoolSize(p1, s))
             THEN Outcome("assert: GetElementData", s)
             ELSE Outcome("ok", [s1 EXCEPT !.entity[SlotOf(s, index)] = entity])

\* component->RemoveEntity(entity) of the component s.
ComponentRemoveEntity(s, entity) ==
    IF ~RemoveEntityAssert(s, entity) THEN Outcome("assert: RemoveEntity", s)
    ELSE LET index == GetComponentDataIndex(s, entity)
         IN  IF ~(index < PoolSize(s.component_data_, s)) THEN Outcome("crash", s)
             ELSE IF ~FreeElementAssert(s.component_data_, SlotOf(s, index))
             THEN Outcome("assert: FreeElement", s)
             ELSE Outcome("ok",
                     [s EXCEPT
                         !.component_data_ = FreeElementPool(@, SlotOf(s, index)),
                         !.entity[SlotOf(s, index)] = 0,
                         !.component_index_lookup_ = MapErase(@, entity)])

\* GetComponent(ComponentId id): assert(id < components_.size()).
GetComponentAssert(m, id) == id < Len(m.components_)

\* components_[id]
GetComponent(m, id) == m.components_[id + 1]

\* The loop of RemoveAllComponents(entity), from the i-th registered
\* component on: the entity is removed from every component that has data
\* for it.
RECURSIVE RemoveAllComponentsFrom(_, _, _)
RemoveAllComponentsFrom(m, ref, i) ==
    IF i > Len(m.components_) THEN Outcome("ok", m)
    ELSE IF ~EntityRefIsValid(m, ref) THEN Outcome("assert: operator->", m)
    ELSE LET t == m.components_[i]
         IN  IF ~HasDataForEntity(m.store[t], entity_id(ref))
             THEN RemoveAllComponentsFrom(m, ref, i + 1)
             ELSE LET r == ComponentRemoveEntity(m.store[t], entity_id(ref))
                  IN  IF r.status # "ok" THEN Outcome(r.status, m)
                      ELSE RemoveAllComponentsFrom(
                               [m EXCEPT !.store[t] = r.after], ref, i + 1)

\* entities_.FreeElement(entity): nothing if the EntityRef is not valid; the
\* Entity of the slot is constructed anew.
FreeEntity(m, ref) ==
    IF ~EntityRefIsValid(m, ref) THEN m
    ELSE [m EXCEPT !.entities_ = FreeElementPool(@, ref.index_),
                   !.marked[ref.index_] = FALSE]

\* For the properties: the slots of entities_ whose entity, when it was
\* deleted, was marked for deletion and had data in a component.
WasMarkedAndAttached(m, ref) ==
    IF ~EntityRefIsValid(m, ref) THEN m.gMarkedAndAttached
    ELSE IF /\ m.marked[ref.index_]
            /\ \E t \in Components : HasDataForEntity(m.store[t], entity_id(ref))
    THEN m.gMarkedAndAttached \cup {ref.index_}
    ELSE m.gMarkedAndAttached \ {ref.index_}

\* RemoveAllComponents(entity), then entities_.FreeElement(entity).
DeleteEntityNow(m, ref) ==
    LET r == RemoveAllComponentsFrom(m, ref, 1)
    IN  IF r.status # "ok" THEN r
        ELSE Outcome("ok", [FreeEntity(r.after, ref) EXCEPT
                               !.gMarkedAndAttached = WasMarkedAndAttached(m, ref)])

\* The loop of DeleteMarkedEntities(), from the i-th EntityRef of
\* entities_to_delete_ on.
RECURSIVE DeleteMarkedEntitiesFrom(_, _)
DeleteMarkedEntitiesFrom(m, i) ==
    IF i > Len(m.entities_to_delete_)
    THEN Outcome("ok", [m EXCEPT !.entities_to_delete_ = <<>>])
    ELSE LET r == DeleteEntityNow(m, m.entities_to_delete_[i])
         IN  IF r.status # "ok" THEN r
             ELSE DeleteMarkedEntitiesFrom(r.after, i + 1)

\* A call of the EntityManager ends: in `r.after` if it returned, and with
\* the process if an assertion failed.
ManagerCall(r, call) ==
    IF r.status = "ok"
    THEN /\ mgr' = r.after
         /\ last' = call
         /\ UNCHANGED <<pool, refs, status, gRun, gState, gData, gReissued, nNet,
                        nChurns, it, comp, hnd>>
    ELSE Ended(r.status,
               [call EXCEPT !.res = IF r.status = "crash" THEN "crash" ELSE "assert"])

\* The component ids a client may pass: those of the components there can
\* be, the first one past them, and kInvalidComponent.
ComponentIds == 0 .. Cardinality(Components) \cup {kInvalidComponent}

\* Ids counted from one.
RegisterComponentId_FromOne(m) == Len(m.components_) + 1

\* ComponentId component_id = static_cast<ComponentId>(components_.size());
RegisterComponentId(m) == Len(m.components_) % (kInvalidComponent + 1)

\* RegisterComponentHelper(new_component, component_id): the component is
\* put at the end of components_, and its Init() is called.
RegisterComponentHelper(m, t, component_id) ==
    [m EXCEPT !.components_ = Append(@, t),
              !.store[t].inits = @ + 1]

\* RegisterComponent<T>(new_component): the id is the number of components
\* registered so far, and ComponentIdLookup<T>::component_id becomes it.
RegisterComponent(t) ==
    /\ status = "ok"
    /\ t \notin Range(mgr.components_)
    /\ LET component_id == RegisterComponentId(mgr)
           m1 == [mgr EXCEPT !.component_id[t] = component_id]
       IN  /\ mgr' = [RegisterComponentHelper(m1, t, component_id) EXCEPT
                         !.report = [kind |-> "RegisterComponent",
                                     ids |-> <<component_id>>]]
           /\ last' = Call("RegisterComponent", t, component_id, "registered")
    /\ UNCHANGED <<pool, refs, status, gRun, gState, gData, gReissued, nNet,
                   nChurns, it, comp, hnd>>

\* AllocateNewEntity giving back the handle of what the slot held before.
AllocateNewEntity_OldHandle(alloc_location) ==
    /\ status = "ok"
    /\ Len(mgr.refs) < MaxEntityRefs
    /\ HasFree(mgr.entities_) \/ Size(mgr.entities_) < MaxSize
    /\ GetNewElementAsserts(mgr.entities_)
    /\ LET index == NewElementIndex(mgr.entities_)
           p1    == GetNewElementPool(mgr.entities_, alloc_location)
       IN  /\ mgr' = [mgr EXCEPT
                         !.entities_ = p1,
                         !.refs = Append(@, [VectorPoolReference(p1, index) EXCEPT
                                                !.unique_id_ = kInvalidId]),
                         !.report = [kind |-> "AllocateNewEntity",
                                     ids |-> <<Len(mgr.refs) + 1>>]]
           /\ last' = Call("AllocateNewEntity", alloc_location, Len(mgr.refs) + 1,
                           "allocated")
    /\ UNCHANGED <<pool, refs, status, gRun, gState, gData, gReissued, nNet,
                   nChurns, it, comp, hnd>>

\* entity = AllocateNewEntity(): a new element of entities_ (at either end of
\* its used list), holding Entity().
AllocateNewEntity(alloc_location) ==
    /\ status = "ok"
    /\ Len(mgr.refs) < MaxEntityRefs
    /\ HasFree(mgr.entities_) \/ Size(mgr.entities_) < MaxSize
    /\ GetNewElementAsserts(mgr.entities_)
    /\ LET index == NewElementIndex(mgr.entities_)
           p1    == GetNewElementPool(mgr.entities_, alloc_location)
       IN  /\ mgr' = [mgr EXCEPT
                         !.entities_ = p1,
                         !.marked[index] = FALSE,
                         !.refs = Append(@, VectorPoolReference(p1, index)),
                         !.report = [kind |-> "AllocateNewEntity",
                                     ids |-> <<Len(mgr.refs) + 1>>]]
           /\ last' = Call("AllocateNewEntity", alloc_location, Len(mgr.refs) + 1,
                           "allocated")
    /\ UNCHANGED <<pool, refs, status, gRun, gState, gData, gReissued, nNet,
                   nChurns, it, comp, hnd>>

\* AddEntityToComponent(entity, component_id)
AddEntityToComponentOutcome(m, ref, component_id) ==
    IF ~GetComponentAssert(m, component_id) THEN Outcome("assert: GetComponent", m)
    ELSE IF ~EntityRefIsValid(m, ref) THEN Outcome("assert: operator->", m)
    ELSE LET t == GetComponent(m, component_id)
             r == AddEntityGenerically(m.store[t], entity_id(ref))
         IN  IF r.status # "ok" THEN Outcome(r.status, m)
             ELSE Outcome("ok", [m EXCEPT !.store[t] = r.after,
                                          !.report = NoReport])

\* The elements the component's pool has allocated through the manager.
StoreAdds(s) == s.component_data_.next_unique_id_[2] - 1 - s.bulk

\* The component has room for one more entity within the bounds.
ComponentHasRoom(m, ref, component_id) ==
    GetComponentAssert(m, component_id) =>
        LET s == m.store[GetComponent(m, component_id)]
        IN  \/ HasDataForEntity(s, entity_id(ref))
            \/ /\ StoreAdds(s) < MaxStoreAdds
               /\ HasFree(s.component_data_) \/ Size(s.component_data_) < MaxSize

\* entity_manager.AddEntityToComponent(entity, component_id)
AddEntityToComponent(i, component_id) ==
    /\ status = "ok"
    /\ i \in 0 .. Len(mgr.refs)
    /\ ComponentHasRoom(mgr, EntityRefOf(mgr, i), component_id)
    /\ ManagerCall(AddEntityToComponentOutcome(mgr, EntityRefOf(mgr, i), component_id),
                   Call("AddEntityToComponent", ToString(component_id), i, "added"))

\* The asserts of GetComponent<T>() and AddEntityToComponent<T>(entity).
ComponentIdAssert(m, id) == id # kInvalidComponent /\ id < Len(m.components_)

\* entity_manager.AddEntityToComponent<T>(entity), T the class of t.
AddEntityToComponentT(i, t) ==
    /\ status = "ok"
    /\ i \in 0 .. Len(mgr.refs)
    /\ ComponentHasRoom(mgr, EntityRefOf(mgr, i), mgr.component_id[t])
    /\ ManagerCall(
           IF ~ComponentIdAssert(mgr, mgr.component_id[t])
           THEN Outcome("assert: AddEntityToComponent<T>", mgr)
           ELSE AddEntityToComponentOutcome(mgr, EntityRefOf(mgr, i),
                                            mgr.component_id[t]),
           Call("AddEntityToComponent<T>", t, i, "added"))

\* GetComponent(id) without its assert, giving back no component for an id
\* that is not registered.
GetComponentById_NoAssert(component_id) ==
    /\ status = "ok"
    /\ ManagerCall(
           Outcome("ok", [mgr EXCEPT !.report =
                             [kind |-> IF GetComponentAssert(mgr, component_id)
                                       THEN GetComponent(mgr, component_id)
                                       ELSE "nullptr",
                              ids |-> <<component_id>>]]),
           Call("GetComponent", "", component_id, "found"))

\* entity_manager.GetComponent(id)
GetComponentById(component_id) ==
    /\ status = "ok"
    /\ ManagerCall(
           IF ~GetComponentAssert(mgr, component_id)
           THEN Outcome("assert: GetComponent", mgr)
           ELSE Outcome("ok", [mgr EXCEPT !.report =
                                  [kind |-> GetComponent(mgr, component_id),
                                   ids |-> <<component_id>>]]),
           Call("GetComponent", "", component_id, "found"))

\* DeleteEntity deleting at once.
DeleteEntityOutcome_AtOnce(m, ref) ==
    IF ~EntityRefIsValid(m, ref) THEN Outcome("assert: operator->", m)
    ELSE DeleteEntityNow(m, ref)

\* entity_manager.DeleteEntity(entity): the entity is marked and put on
\* entities_to_delete_, unless it is marked already.
DeleteEntityOutcome(m, ref) ==
    IF ~EntityRefIsValid(m, ref) THEN Outcome("assert: operator->", m)
    ELSE IF m.marked[ref.index_] THEN Outcome("ok", [m EXCEPT !.report = NoReport])
    ELSE Outcome("ok", [m EXCEPT !.marked[ref.index_] = TRUE,
                                 !.entities_to_delete_ = Append(@, ref),
                                 !.report = NoReport])

DeleteEntity(i) ==
    /\ status = "ok"
    /\ i \in 0 .. Len(mgr.refs)
    /\ ManagerCall(DeleteEntityOutcome(mgr, EntityRefOf(mgr, i)),
                   Call("DeleteEntity", "", i, "marked"))

\* entity_manager.DeleteEntityImmediately(entity)
DeleteEntityImmediately(i) ==
    /\ status = "ok"
    /\ i \in 0 .. Len(mgr.refs)
    /\ LET r == DeleteEntityNow(mgr, EntityRefOf(mgr, i))
       IN  ManagerCall(Outcome(r.status, [r.after EXCEPT !.report = NoReport]),
                       Call("DeleteEntityImmediately", "", i, "deleted"))

\* entity_manager.DeleteMarkedEntities()
DeleteMarkedEntities ==
    /\ status = "ok"
    /\ LET r == DeleteMarkedEntitiesFrom(mgr, 1)
       IN  ManagerCall(Outcome(r.status, [r.after EXCEPT !.report = NoReport]),
                       Call("DeleteMarkedEntities", "",
                            Len(mgr.entities_to_delete_), "deleted"))

\* entity_manager.RemoveAllComponents(entity)
RemoveAllComponents(i) ==
    /\ status = "ok"
    /\ i \in 0 .. Len(mgr.refs)
    /\ LET r == RemoveAllComponentsFrom(mgr, EntityRefOf(mgr, i), 1)
       IN  ManagerCall(Outcome(r.status, [r.after EXCEPT !.report = NoReport]),
                       Call("RemoveAllComponents", "", i, "removed"))

\* The loop of UpdateComponents(delta_time), from the i-th registered
\* component on: the ids of the components whose UpdateAllEntities has been
\* called so far, in the order of the calls, are in `ids`.
\* The loop run from the last registered component to the first.
UpdateComponentsFrom_Backwards(m, i, ids) ==
    [k \in 1 .. Len(m.components_) |-> Len(m.components_) - k]

RECURSIVE UpdateComponentsFrom(_, _, _)
UpdateComponentsFrom(m, i, ids) ==
    IF i > Len(m.components_) THEN ids
    ELSE UpdateComponentsFrom(m, i + 1, Append(ids, m.component_id[m.components_[i]]))

\* entity_manager.UpdateComponents(delta_time)
UpdateComponents ==
    /\ status = "ok"
    /\ mgr' = [mgr EXCEPT !.report = [kind |-> "UpdateComponents",
                                      ids |-> UpdateComponentsFrom(mgr, 1, <<>>)]]
    /\ last' = Call("UpdateComponents", "", Len(mgr.components_), "updated")
    /\ UNCHANGED <<pool, refs, status, gRun, gState, gData, gReissued, nNet,
                   nChurns, it, comp, hnd>>

\* entity = AllocateNewEntity(); AddEntityToComponent(entity, id of t), for
\* BulkEntities entities, none of which is looked at again, on a manager
\* that has no entity yet and a registered component that is new: the
\* component's pool gives them the elements kTotalReserved ..
\* kInvalidComponentIndex - 1, and either pool as many unique ids.
AllocateManyEntities(t) ==
    /\ status = "ok"
    /\ t \in Range(mgr.components_)
    /\ mgr.entities_ = NewPool /\ mgr.bulk = 0
    /\ mgr.store[t].component_data_ = NewPool
    /\ mgr' = [mgr EXCEPT
                  !.entities_.next_unique_id_ = <<@[1], @[2] + BulkEntities>>,
                  !.store[t].component_data_.next_unique_id_ =
                      <<@[1], @[2] + BulkEntities>>,
                  !.store[t].bulk = BulkEntities,
                  !.bulk = BulkEntities,
                  !.report = NoReport]
    /\ last' = Call("AllocateManyEntities", t, BulkEntities, "added")
    /\ UNCHANGED <<pool, refs, status, gRun, gState, gData, gReissued, nNet,
                   nChurns, it, comp, hnd>>

NextManager ==
    \/ \E t \in Components : RegisterComponent(t)
    \/ \E alloc_location \in AllocationLocation : AllocateNewEntity(alloc_location)
    \/ \E i \in 0 .. MaxEntityRefs, component_id \in ComponentIds :
          AddEntityToComponent(i, component_id)
    \/ \E i \in 0 .. MaxEntityRefs, t \in Components : AddEntityToComponentT(i, t)
    \/ \E component_id \in ComponentIds : GetComponentById(component_id)
    \/ \E i \in 0 .. MaxEntityRefs : DeleteEntity(i)
    \/ \E i \in 0 .. MaxEntityRefs : DeleteEntityImmediately(i)
    \/ DeleteMarkedEntities
    \/ \E i \in 0 .. MaxEntityRefs : RemoveAllComponents(i)
    \/ UpdateComponents
    \/ \E t \in Components : AllocateManyEntities(t)

SpecManager == Init /\ [][NextManager]_vars

(***************************************************************************)
(* Calls on a component with an EntityRef of any kind: to a live entity,   *)
(* to a deleted one, empty, or left over from before the manager's         *)
(* Clear(), which cuts entities_ back to its sentinels.                    *)
(***************************************************************************)

\* The EntityRef's index is inside the vector of entities_.
InEntities(m, ref) == ~GetElementIsNull(m.entities_, ref.index_)

\* component.ClearComponentData(): RemoveEntity(iter) on every element, which
\* leaves the vector at its size and all slots but the sentinels free, in
\* the order FreeElement puts them; then nothing is in the index.
RECURSIVE ClearComponentDataLoop(_)
ClearComponentDataLoop(s) ==
    IF begin(s.component_data_) = end(s.component_data_) THEN s
    ELSE LET slot == begin(s.component_data_)
         IN  ClearComponentDataLoop(
                 [s EXCEPT !.component_data_ = FreeElementPool(@, slot),
                           !.component_index_lookup_ = MapErase(@, s.entity[slot]),
                           !.entity[slot] = 0])

\* entity_manager.Clear(): ClearComponentData() on every registered
\* component, no component is registered any more, and entities_.Clear().
\* The EntityRefs the client holds are not the manager's to change.
ClearManager ==
    /\ status = "ok"
    /\ mgr.bulk = 0
    /\ mgr' = [mgr EXCEPT
                  !.store = [t \in Components |->
                                IF t \in Range(mgr.components_)
                                THEN ClearComponentDataLoop(mgr.store[t])
                                ELSE mgr.store[t]],
                  !.components_ = <<>>,
                  !.entities_ = ClearPool(@),
                  !.marked = [index \in DOMAIN @ |-> FALSE],
                  !.entities_to_delete_ = <<>>,
                  !.report = NoReport]
    /\ last' = Call("Clear", "", Len(mgr.components_), "done")
    /\ UNCHANGED <<pool, refs, status, gRun, gState, gData, gReissued, nNet,
                   nChurns, it, comp, hnd>>

IdRead(id) == [kind |-> "id", id |-> id]
IdNone(why) == [kind |-> why, id |-> 0]

\* What entity->entity_id() gives once entity.IsValid() has answered `o`:
\* the id, "assert" (operator-> asserts IsValid()), or "crash".  For an
\* EntityRef whose index is past the end of entities_, IsValid() reads
\* through the null pointer GetElement gives, and when that read happens to
\* say "valid" operator-> hands out the null pointer GetElementData gives
\* and entity_id() reads through that: a crash, or whatever number is there,
\* 0 or the id of some entity.
EntityIdOutcomes(m, ref) ==
    UNION { CASE o = "false" -> {IdNone("assert")}
              [] o = "crash" -> {IdNone("crash")}
              [] o = "true" /\ InEntities(m, ref) -> {IdRead(entity_id(ref))}
              [] OTHER -> {IdNone("crash"), IdRead(0)}
                             \cup {IdRead(entity_id(m.refs[k])) : k \in 1 .. Len(m.refs)}
            : o \in IsValidOutcomes(m.entities_, ref) }

StoreCalls == {"HasDataForEntity", "GetComponentData", "AddEntity", "RemoveEntity"}

\* What the call `op` on the component s does with the entity id it read.
StoreCallOutcome(op, s, entity) ==
    CASE op = "HasDataForEntity" ->
             [status |-> "ok", after |-> s,
              res |-> IF HasDataForEntity(s, entity) THEN "true" ELSE "false"]
      [] op = "GetComponentData" ->
             [status |-> "ok", after |-> s,
              res |-> IF GetComponentData(s.component_data_, s, entity) = PtrNull
                      THEN "null" ELSE "data"]
      [] op = "AddEntity" ->
             [status |-> AddEntityGenerically(s, entity).status,
              after |-> AddEntityGenerically(s, entity).after, res |-> "added"]
      [] op = "RemoveEntity" ->
             [status |-> ComponentRemoveEntity(s, entity).status,
              after |-> ComponentRemoveEntity(s, entity).after, res |-> "removed"]

\* component.HasDataForEntity(entity), GetComponentData(entity),
\* AddEntity(entity) or RemoveEntity(entity), on the component t, with an
\* EntityRef the client holds (or an empty one).
StoreCall(op, t, i) ==
    /\ status = "ok"
    /\ i \in 0 .. Len(mgr.refs)
    /\ \E id \in EntityIdOutcomes(mgr, EntityRefOf(mgr, i)) :
          LET call == Call(op, t, i, "")
          IN  CASE id.kind = "assert" ->
                       Ended("assert: operator->", [call EXCEPT !.res = "assert"])
                [] id.kind = "crash" -> Ended("crash", [call EXCEPT !.res = "crash"])
                [] OTHER ->
                       LET r == StoreCallOutcome(op, mgr.store[t], id.id)
                       IN  /\ op = "AddEntity" =>
                                \/ HasDataForEntity(mgr.store[t], id.id)
                                \/ /\ StoreAdds(mgr.store[t]) < MaxStoreAdds
                                   /\ \/ HasFree(mgr.store[t].component_data_)
                                      \/ Size(mgr.store[t].component_data_) < MaxSize
                           /\ ManagerCall(
                                  Outcome(r.status, [mgr EXCEPT !.store[t] = r.after,
                                                                !.report = NoReport]),
                                  [call EXCEPT !.res = r.res])

NextQueries ==
    \/ mgr.store["A"].inits = 0 /\ RegisterComponent("A")
    \/ \E alloc_location \in AllocationLocation : AllocateNewEntity(alloc_location)
    \/ \E i \in 1 .. MaxEntityRefs :
          /\ i <= Len(mgr.refs) /\ InEntities(mgr, mgr.refs[i])
          /\ DeleteEntityImmediately(i)
    \/ ClearManager
    \/ \E op \in StoreCalls, i \in 0 .. MaxEntityRefs : StoreCall(op, "A", i)

SpecQueries == Init /\ [][NextQueries]_vars

(***************************************************************************)
(* Two pools of one element type, and VectorPoolReferences as values: they *)
(* are compared, made from Iterators, and passed to either pool.           *)
(***************************************************************************)
Pools == {"pool", "other"}

PoolOf(c) == IF c = "pool" THEN pool ELSE hnd.other

\* The reference the client passes: one it holds, or (0) an empty one.
Held(i) == IF i = 0 THEN NullReference ELSE hnd.held[i]

\* VectorPoolReference(container, index), container being the pool c.
ReferenceTo(c, index) ==
    [VectorPoolReference(PoolOf(c), index) EXCEPT !.container_ = c]

\* ref.IsValid(): reads the element of the reference's own container_.
HeldIsValidOutcomes(ref) == IsValidOutcomes(PoolOf(ref.container_), ref)

\* The pool c becomes p and the client's references become held.
PoolBecomes(c, p, held) ==
    /\ pool' = IF c = "pool" THEN p ELSE pool
    /\ hnd' = [other |-> IF c = "other" THEN p ELSE hnd.other, held |-> held]

\* ref = c.GetNewElement(alloc_location)
GetNewElementIn(c, alloc_location) ==
    /\ status = "ok"
    /\ Len(hnd.held) < MaxHandles
    /\ HasFree(PoolOf(c)) \/ Size(PoolOf(c)) < MaxSize
    /\ GetNewElementAsserts(PoolOf(c))
    /\ LET p1 == GetNewElementPool(PoolOf(c), alloc_location)
           ref == [VectorPoolReference(p1, NewElementIndex(PoolOf(c)))
                      EXCEPT !.container_ = c]
       IN  PoolBecomes(c, p1, Append(hnd.held, ref))
    /\ last' = Call("GetNewElement", c, Len(hnd.held) + 1, "allocated")
    /\ UNCHANGED <<refs, status, gRun, gState, gData, gReissued, nNet, nChurns, it,
                   comp, mgr>>

\* What c.FreeElement(element) does when element.IsValid() gave `o`:
\* FreeElement(element.index_) on c, whatever the pool of the reference.  An
\* index_ past the end of c's vector is read unchecked.
FreeElementInBody(c, i, o) ==
    LET call == Call("FreeElement(ref)", c, i, "freed")
        index == Held(i).index_
    IN  CASE o = "false" ->
                 /\ last' = [call EXCEPT !.res = "ignored"]
                 /\ UNCHANGED <<pool, refs, status, gRun, gState, gData, gReissued,
                                nNet, nChurns, it, comp, mgr, hnd>>
          [] o = "true" /\ ~GetElementIsNull(PoolOf(c), index)
                        /\ FreeElementAssert(PoolOf(c), index) ->
                 /\ PoolBecomes(c, FreeElementPool(PoolOf(c), index), hnd.held)
                 /\ last' = call
                 /\ UNCHANGED <<refs, status, gRun, gState, gData, gReissued, nNet,
                                nChurns, it, comp, mgr>>
          [] o = "true" /\ ~GetElementIsNull(PoolOf(c), index) ->
                 Ended("assert: FreeElement", [call EXCEPT !.res = "assert"])
          [] OTHER -> Ended("crash", [call EXCEPT !.res = "crash"])

\* c.FreeElement(element), element any reference the client holds.
FreeElementIn(c, i) ==
    /\ status = "ok"
    /\ i \in 0 .. Len(hnd.held)
    /\ \E o \in HeldIsValidOutcomes(Held(i)) : FreeElementInBody(c, i, o)

\* operator== that looks at the unique id as well.
ReferenceEquals_WithId(a, b) ==
    a.container_ = b.container_ /\ a.index_ = b.index_ /\ a.unique_id_ = b.unique_id_

\* VectorPoolReference::operator==
ReferenceEquals(a, b) == a.container_ = b.container_ /\ a.index_ = b.index_

\* a == b, for two references the client holds (or empty ones).
CompareReferences(i, j) ==
    /\ status = "ok"
    /\ i \in 0 .. Len(hnd.held) /\ j \in 0 .. Len(hnd.held)
    /\ last' = Call("operator==", ToString(j), i,
                    IF ReferenceEquals(Held(i), Held(j)) THEN "true" ELSE "false")
    /\ UNCHANGED <<pool, refs, status, gRun, gState, gData, gReissued, nNet, nChurns,
                   it, comp, mgr, hnd>>

\* The places an Iterator of a pool can be at: begin() and end(), what ++
\* and -- lead to from there (the sentinels of the used list; from an
\* element that was freed since, the free list and its sentinels), and the
\* elements themselves.
IteratorPlaces(p) == 0 .. Size(p) - 1

\* ref = iter.ToReference(), iter an Iterator of the pool c at index.
ToReference(c, index) ==
    /\ status = "ok"
    /\ Len(hnd.held) < MaxHandles
    /\ index \in IteratorPlaces(PoolOf(c))
    /\ hnd' = [hnd EXCEPT !.held = Append(@, ReferenceTo(c, index))]
    /\ last' = Call("ToReference", c, index, "made")
    /\ UNCHANGED <<pool, refs, status, gRun, gState, gData, gReissued, nNet, nChurns,
                   it, comp, mgr>>

NextHandles ==
    \/ \E c \in Pools, alloc_location \in AllocationLocation :
          GetNewElementIn(c, alloc_location)
    \/ \E c \in Pools, i \in 0 .. MaxHandles : FreeElementIn(c, i)
    \/ \E i \in 0 .. MaxHandles, j \in 0 .. MaxHandles : CompareReferences(i, j)
    \/ \E c \in Pools, index \in 0 .. MaxSize - 1 : ToReference(c, index)

SpecHandles == Init /\ [][NextHandles]_vars

(***************************************************************************)
(* What the history says, for stating the properties.                      *)
(***************************************************************************)
\* The numbers of the references whose element is still allocated, ascending.
RECURSIVE LiveFrom(_)
LiveFrom(j) ==
    IF j > Len(refs) THEN <<>>
    ELSE (IF gState[j] = "live" THEN <<j>> ELSE <<>>) \o LiveFrom(j + 1)

LiveRefs == LiveFrom(1)

\* The slots that hold an allocated element.
LiveSlots == {refs[j].index_ : j \in Range(LiveRefs)}

Reverse(s) == [k \in 1 .. Len(s) |-> s[Len(s) + 1 - k]]

\* s without its elements outside `keep`, order kept.
RECURSIVE Filter(_, _)
Filter(s, keep) ==
    IF s = <<>> THEN <<>>
    ELSE (IF Head(s) \in keep THEN <<Head(s)>> ELSE <<>>) \o Filter(Tail(s), keep)

NoRepeat(s) == Cardinality(Range(s)) = Len(s)

\* The walk from begin() arrives at end() (and not at a slot outside the
\* vector, or at no end at all).
UsedWalkEnds(p) ==
    LET w == UsedWalk(p)
    IN  IF w = <<>> THEN begin(p) = end(p)
        ELSE p.elements_[w[Len(w)]].next = end(p)

FreeWalkEnds(p) ==
    LET w == FreeWalk(p)
    IN  IF w = <<>> THEN p.elements_[kFirstFree].next = kLastFree
        ELSE p.elements_[w[Len(w)]].next = kLastFree

(***************************************************************************)
(* C1.  For any sequence of GetNewElement and FreeElement calls,           *)
(* active_count() is the number of allocations minus the number of frees,  *)
(* a walk from begin() to end() visits exactly the allocated slots, each   *)
(* once, and begin() = end() exactly when no element is allocated.         *)
(***************************************************************************)
C1_CountAndWalk ==
    /\ active_count(pool) = nNet
    /\ UsedWalkEnds(pool)
    /\ NoRepeat(UsedWalk(pool))
    /\ Range(UsedWalk(pool)) = LiveSlots
    /\ Len(UsedWalk(pool)) = nNet
    /\ (begin(pool) = end(pool)) <=> (nNet = 0)

\* Three allocations and two frees so far: one element is left.
C1_Witness ==
    /\ status = "ok"
    /\ Len(refs) = 3
    /\ Cardinality({j \in 1 .. Len(refs) : gState[j] = "freed"}) = 2
    /\ active_count(pool) = 1
    /\ last.res = "freed"

(***************************************************************************)
(* C2.  A handle returned by GetNewElement is valid at once and stays      *)
(* valid, resolving to the same slot and the same payload, whatever        *)
(* allocations, frees of other slots and Reserve calls (growing the vector *)
(* or not) follow.                                                         *)
(***************************************************************************)
C2_LiveHandleValid ==
    \A i \in 1 .. Len(refs) :
        gState[i] = "live" =>
            /\ IsValidOutcomes(pool, refs[i]) = {"true"}
            /\ ToPointerOutcomes(pool, refs[i]) = {PtrTo(refs[i].index_)}
            /\ pool.elements_[refs[i].index_].data = gData[i]

\* The first handle's element holds a written value; since then the vector
\* has grown to its largest, another element was freed and its slot given
\* to a third, and Reserve was the last call.
C2_Witness ==
    /\ status = "ok"
    /\ Len(refs) = 3
    /\ gState = <<"live", "freed", "live">>
    /\ gData[1] = ValueOf(1)
    /\ refs[3].index_ = refs[2].index_
    /\ Size(pool) = MaxSize
    /\ last.op = "Reserve"

C4_ExactlyOneList ==
    LET u == UsedWalk(pool)
        f == FreeWalk(pool)
    IN  /\ UsedWalkEnds(pool) /\ FreeWalkEnds(pool)
        /\ NoRepeat(u) /\ NoRepeat(f)
        /\ Range(u) \cap Range(f) = {}
        /\ Range(u) \cup Range(f) = kTotalReserved .. Size(pool) - 1
        /\ Size(pool) - kTotalReserved = active_count(pool) + Len(f)
        /\ \A i \in 1 .. Len(refs) : refs[i].index_ >= kTotalReserved

\* Both lists hold slots, and the last allocation took one from the free
\* list.
C4_Witness ==
    /\ status = "ok"
    /\ Len(refs) = 3
    /\ Size(pool) = MaxSize
    /\ Len(UsedWalk(pool)) = 2
    /\ Len(FreeWalk(pool)) = 1
    /\ gState[1] = "freed"
    /\ last.res = "allocated"

(***************************************************************************)
(* C5.  Elements allocated into an empty pool with kAddToBack are iterated *)
(* in allocation order; allocated with kAddToFront, in reverse allocation  *)
(* order.                                                                  *)
(***************************************************************************)
C5_InsertionOrder ==
    LET w == UsedWalk(pool)
        a == [k \in 1 .. Len(LiveRefs) |-> refs[LiveRefs[k]].index_]
    IN  /\ gRun = kAddToBack => w = a
        /\ gRun = kAddToFront => w = Reverse(a)

\* Three elements allocated at the front of an empty pool.
C5_Witness ==
    /\ status = "ok"
    /\ gRun = kAddToFront
    /\ active_count(pool) = 3
    /\ UsedWalk(pool) = <<6, 5, 4>>

\* The step is a successful GetNewElement / FreeElement.
Allocated == status' = "ok" /\ Len(refs') = Len(refs) + 1

Freed == status' = "ok" /\ last'.res = "freed" /\ nNet' = nNet - 1

\* The step is a call of FreeElement(size_t) / FreeElement(VectorPoolReference).
FreeByIndex == status = "ok" /\ last'.op = "FreeElement(index)"

FreeByRef == status = "ok" /\ last'.op = "FreeElement(ref)"

\* The slot the FreeElement call of this step names.
FreeTarget ==
    IF last'.op = "FreeElement(ref)" THEN Ref(last'.arg).index_ ELSE last'.arg

C7_ReuseBeforeGrow ==
    [][Allocated =>
          LET x == refs'[Len(refs')].index_
              f == FreeWalk(pool)
          IN  IF f # <<>>
              THEN x = Head(f) /\ Size(pool') = Size(pool)
              ELSE x = Size(pool) /\ Size(pool') = Size(pool) + 1]_vars

\* Three allocations, and the vector has one slot besides the sentinels:
\* two of them reused it.
C7_Witness ==
    /\ status = "ok"
    /\ Len(refs) = 3
    /\ Size(pool) = kTotalReserved + 1
    /\ refs[3].index_ = refs[1].index_
    /\ last.res = "allocated"

(***************************************************************************)
(* C8.  FreeElement on an allocated slot resets the payload to the default *)
(* value and the unique id to kInvalidId, takes the slot out of the used   *)
(* list and puts it at the front of the free list: the next GetNewElement  *)
(* returns it.                                                             *)
(***************************************************************************)
C8_FreeResets ==
    [][Freed =>
          LET x == FreeTarget
          IN  /\ pool.elements_[x].unique_id # kInvalidId
              /\ x \in Range(UsedWalk(pool))
              /\ pool'.elements_[x].data = kDefaultData
              /\ pool'.elements_[x].unique_id = kInvalidId
              /\ x \notin Range(UsedWalk(pool'))
              /\ FreeWalk(pool') = <<x>> \o FreeWalk(pool)
              /\ NewElementIndex(pool') = x
              /\ Size(pool') = Size(pool)]_vars

\* The second element had a value written to it and has just been freed,
\* with another slot already in the free list.
C8_Witness ==
    /\ status = "ok"
    /\ Len(refs) = 2
    /\ gState = <<"live", "freed">>
    /\ gData[2] = ValueOf(2)
    /\ last.res = "freed"
    /\ pool.elements_[refs[2].index_].data = kDefaultData
    /\ Len(FreeWalk(pool)) = 2
    /\ Head(FreeWalk(pool)) = refs[2].index_

C10_ResolveOrNull ==
    /\ IsValidOutcomes(pool, NullReference) = {"false"}
    /\ ToPointerOutcomes(pool, NullReference) = {PtrNull}
    /\ \A i \in 1 .. Len(refs) :
          \E ptr \in {PtrTo(refs[i].index_), PtrNull} :
              /\ ToPointerOutcomes(pool, refs[i]) = {ptr}
              /\ (ptr # PtrNull) <=>
                    (/\ refs[i].index_ \in DOMAIN pool.elements_
                     /\ pool.elements_[refs[i].index_].unique_id
                           = refs[i].unique_id_)

\* The step is a dereference, by operator-> (SetData) or by operator*.
Dereferenced == status = "ok" /\ last'.op \in {"SetData", "operator*"}

\* The reference the client passed in this step has an element of its own:
\* it was issued for an element that has been neither freed nor cleared.
DerefLive == last'.arg >= 1 /\ gState[last'.arg] = "live"

(***************************************************************************)
(* C11.  operator-> and operator* on a handle that is not valid (its       *)
(* element was freed or cleared, or the handle is empty) fail an           *)
(* assertion, and never give the payload of the slot's present occupant.   *)
(***************************************************************************)
C11_StaleDerefAsserts ==
    [][(Dereferenced /\ ~DerefLive)
          => (last'.res = "assert" /\ status' # "ok")]_vars

(***************************************************************************)
(* C12.  The element GetNewElement returns holds the default-constructed   *)
(* payload, also in a slot whose previous occupant had other data written  *)
(* to it.                                                                  *)
(***************************************************************************)
C12_NewElementDefault ==
    [][Allocated =>
          LET ref == refs'[Len(refs')]
          IN  /\ pool'.elements_[ref.index_].data = kDefaultData
              /\ ToPointerOutcomes(pool', ref) = {PtrTo(ref.index_)}]_vars

\* The second handle has just been returned for the slot of the first, whose
\* element had a value written to it before it was freed.
C12_Witness ==
    /\ status = "ok"
    /\ Len(refs) = 2
    /\ gState = <<"freed", "live">>
    /\ gData[1] = ValueOf(1) /\ ValueOf(1) # kDefaultData
    /\ refs[2].index_ = refs[1].index_
    /\ last.res = "allocated"
    /\ pool.elements_[refs[2].index_].data = kDefaultData

\* The slots the walk still has before it, the iterator's own first.
LoopAhead == WalkFrom(pool, it.index_, end(pool), Size(pool) + 1)

(***************************************************************************)
(* C13.  FreeElement(Iterator) frees the element the iterator is at and    *)
(* returns the iterator of the element that came after it in the used list *)
(* (end() after the last); a loop that goes on from the returned iterator  *)
(* visits every remaining element exactly once; and the loop from begin()  *)
(* that frees every element ends, with the used list empty.                *)
(***************************************************************************)
C13_FreeWhileIterating ==
    /\ [](it.mode \in LoopKinds =>
            /\ it.visited \o LoopAhead = it.start
            /\ NoRepeat(it.start)
            /\ UsedWalk(pool) = Filter(it.start, Range(it.start) \ it.freed))
    /\ [][(status' = "ok" /\ last'.op = "FreeElement(iter)") =>
            /\ it.index_ \in Range(UsedWalk(pool))
            /\ Head(FreeWalk(pool')) = it.index_
            /\ pool'.elements_[it.index_].unique_id = kInvalidId
            /\ it'.index_ = IF Tail(LoopAhead) = <<>> THEN end(pool)
                             ELSE Head(Tail(LoopAhead))
            /\ it'.index_ \in Range(UsedWalk(pool')) \cup {end(pool')}]_vars
    /\ (it.mode = "freeAll") ~>
            (/\ it.mode = "freeAll" /\ it.index_ = end(pool)
             /\ begin(pool) = end(pool) /\ active_count(pool) = 0
             /\ Range(it.start) \subseteq Range(FreeWalk(pool)))

\* A walk over three elements has reached end(), having freed the second on
\* its way and stepped over the other two.
C13_Witness ==
    /\ status = "ok"
    /\ it.mode = "walk"
    /\ it.index_ = end(pool)
    /\ Len(it.start) = 3
    /\ it.visited = it.start
    /\ it.freed = {it.start[2]}
    /\ UsedWalk(pool) = <<it.start[1], it.start[3]>>

\* The step is a call of Reserve.
Reserved == status = "ok" /\ last'.op = "Reserve"

(***************************************************************************)
(* C14.  Reserve(n) with n > Size() makes the vector exactly n slots long  *)
(* and puts every new slot on the free list; active_count(), the used list *)
(* and its order, the elements and the validity of the handles stay as     *)
(* they were.  Reserve(n) with n <= Size() changes nothing.                *)
(***************************************************************************)
C14_ReserveFrame ==
    [][Reserved =>
          LET n == last'.arg
              added == [k \in 1 .. n - Size(pool) |-> n - k]
          IN  IF n > Size(pool)
              THEN /\ Size(pool') = n
                   /\ FreeWalk(pool') = added \o FreeWalk(pool)
                   /\ FreeWalkEnds(pool')
                   /\ \A x \in Range(added) :
                         /\ pool'.elements_[x].unique_id = kInvalidId
                         /\ pool'.elements_[x].data = kDefaultData
                   /\ active_count(pool') = active_count(pool)
                   /\ UsedWalk(pool') = UsedWalk(pool)
                   /\ UsedWalkEnds(pool')
                   /\ \A x \in Range(UsedWalk(pool)) :
                         pool'.elements_[x] = pool.elements_[x]
                   /\ pool'.next_unique_id_ = pool.next_unique_id_
                   /\ refs' = refs
                   /\ \A i \in 1 .. Len(refs) :
                         IF GetElementIsNull(pool, refs[i].index_)
                         THEN /\ gState[i] # "live"
                              /\ (\/ GetElementIsNull(pool', refs[i].index_)
                                  \/ IsValidOutcomes(pool', refs[i]) = {"false"})
                         ELSE IsValidOutcomes(pool', refs[i])
                                 = IsValidOutcomes(pool, refs[i])
              ELSE pool' = pool /\ refs' = refs]_vars

\* One element was allocated and written to, and Reserve has made the vector
\* as long as it gets: the two other slots are on the free list.
C14_Witness ==
    /\ status = "ok"
    /\ last.op = "Reserve" /\ last.arg = MaxSize
    /\ Len(refs) = 1 /\ gState[1] = "live" /\ gData[1] = ValueOf(1)
    /\ Size(pool) = MaxSize
    /\ active_count(pool) = 1
    /\ Len(FreeWalk(pool)) = MaxSlots - 1

\* The slots a loop `for (iter = end(); iter != begin(); ) { --iter; ... }`
\* visits, in order.
RECURSIVE WalkBackFrom(_, _, _, _)
WalkBackFrom(p, index, stop, fuel) ==
    IF index = stop \/ fuel = 0 \/ index \notin DOMAIN p.elements_
    THEN <<>>
    ELSE LET previous == IteratorDecrement(p, index)
         IN  <<previous>> \o WalkBackFrom(p, previous, stop, fuel - 1)

BackWalk(p) == WalkBackFrom(p, end(p), begin(p), Size(p) + 1)

(***************************************************************************)
(* C15.  Stepping back with operator-- from end() visits the allocated     *)
(* elements in the reverse of the forward order, and arrives at begin()    *)
(* after active_count() steps.                                             *)
(***************************************************************************)
C15_BackwardIsReverse ==
    LET b == BackWalk(pool)
    IN  /\ b = Reverse(UsedWalk(pool))
        /\ Len(b) = active_count(pool)
        /\ b # <<>> => b[Len(b)] = begin(pool)

\* Three elements, not in slot order: allocated at the front, the back and
\* the front.
C15_Witness ==
    /\ status = "ok"
    /\ active_count(pool) = 3
    /\ UsedWalk(pool) = <<6, 4, 5>>
    /\ BackWalk(pool) = <<5, 4, 6>>

\* The step is a call of AddEntity / RemoveEntity(EntityRef&), for the entity
\* last'.arg.
AddEntityCalled ==
    /\ status = "ok"
    /\ last'.op \in {"AddEntity(entity)", "AddEntity(entity, alloc_location)"}

RemoveEntityCalled == status = "ok" /\ last'.op = "RemoveEntity"

\* The entity has been added to the component and not removed since.
Attached(entity) == comp.gSlot[entity] # kOutOfBounds

\* Everything of the component but the record of its last call.
ComponentState(c) ==
    <<c.component_index_lookup_, c.entity, c.valid, c.adds, c.bulk>>

(***************************************************************************)
(* C16.  AddEntity on an entity that already has data returns the payload  *)
(* the first call returned, with its contents as they were, and changes    *)
(* neither active_count nor any slot, and does not call InitEntity.        *)
(***************************************************************************)
C16_AddEntityIdempotent ==
    [][(AddEntityCalled /\ EntityIsValid(comp, last'.arg) /\ Attached(last'.arg)) =>
          /\ status' = "ok" /\ last'.res = "existing"
          /\ comp'.result = PtrTo(comp.gSlot[last'.arg])
          /\ comp.entity[comp.gSlot[last'.arg]] = last'.arg
          /\ pool' = pool
          /\ ComponentState(comp') = ComponentState(comp)
          /\ comp'.hook.calls = 0]_vars

(***************************************************************************)
(* C17.  AddEntity on an entity without data allocates exactly one slot    *)
(* (at the back of the used list unless told otherwise), records entity -> *)
(* slot in the index and the entity in the slot, and only then calls       *)
(* InitEntity, once; afterwards HasDataForEntity(entity) holds and the     *)
(* payload returned is default-constructed.                                *)
(***************************************************************************)
C17_AddEntityAllocates ==
    [][(AddEntityCalled /\ EntityIsValid(comp, last'.arg) /\ ~Attached(last'.arg)) =>
          LET entity == last'.arg
              slot   == comp'.gSlot[entity]
          IN  /\ status' = "ok" /\ last'.res = "added"
              /\ slot \notin Range(UsedWalk(pool))
              /\ active_count(pool') = active_count(pool) + 1
              /\ UsedWalk(pool') =
                    IF last'.op = "AddEntity(entity)" \/ last'.loc = kAddToBack
                    THEN UsedWalk(pool) \o <<slot>>
                    ELSE <<slot>> \o UsedWalk(pool)
              /\ \A x \in Range(UsedWalk(pool)) :
                    /\ pool'.elements_[x].data = pool.elements_[x].data
                    /\ pool'.elements_[x].unique_id = pool.elements_[x].unique_id
                    /\ comp'.entity[x] = comp.entity[x]
              /\ comp'.component_index_lookup_ =
                    MapPut(comp.component_index_lookup_, entity,
                           PoolIndex(comp, slot))
              /\ comp'.entity[slot] = entity
              /\ comp'.hook.name = "InitEntity" /\ comp'.hook.calls = 1
              /\ comp'.hook.entity = entity
              /\ comp'.hook.has_data /\ comp'.hook.ptr = PtrTo(slot)
              /\ comp'.hook.holder = entity
              /\ comp'.hook.active = PoolActiveCount(pool', comp')
              /\ HasDataForEntity(comp', entity)
              /\ comp'.result = PtrTo(slot)
              /\ pool'.elements_[slot].data = kDefaultData]_vars

(***************************************************************************)
(* C18.  RemoveEntity on an attached entity calls CleanupEntity first,     *)
(* while the entity's data is still there and can be queried, then frees   *)
(* the slot and removes the index entry; afterwards HasDataForEntity is    *)
(* false, GetComponentData is null, active_count is one less, and the data *)
(* of the other entities is as it was.                                     *)
(***************************************************************************)
C18_RemoveEntityOrder ==
    [][(RemoveEntityCalled /\ EntityIsValid(comp, last'.arg) /\ Attached(last'.arg)) =>
          LET entity == last'.arg
              slot   == comp.gSlot[entity]
          IN  /\ status' = "ok" /\ last'.res = "removed"
              /\ comp'.hook.name = "CleanupEntity" /\ comp'.hook.calls = 1
              /\ comp'.hook.entity = entity
              /\ comp'.hook.has_data /\ comp'.hook.ptr = PtrTo(slot)
              /\ comp'.hook.holder = entity
              /\ comp'.hook.data = pool.elements_[slot].data
              /\ comp'.hook.active = PoolActiveCount(pool, comp)
              /\ ~HasDataForEntity(comp', entity)
              /\ GetComponentData(pool', comp', entity) = PtrNull
              /\ active_count(pool') = active_count(pool) - 1
              /\ Head(FreeWalk(pool')) = slot
              /\ pool'.elements_[slot].unique_id = kInvalidId
              /\ UsedWalk(pool') = Filter(UsedWalk(pool), Range(UsedWalk(pool)) \ {slot})
              /\ comp'.component_index_lookup_ =
                    MapErase(comp.component_index_lookup_, entity)
              /\ \A x \in Range(UsedWalk(pool')) :
                    /\ pool'.elements_[x].data = pool.elements_[x].data
                    /\ pool'.elements_[x].unique_id = pool.elements_[x].unique_id
                    /\ comp'.entity[x] = comp.entity[x]]_vars

(***************************************************************************)
(* C19.  RemoveEntity on an entity that is not attached fails an           *)
(* assertion: the call ends there, before CleanupEntity and before any     *)
(* slot or index entry is touched.                                         *)
(***************************************************************************)
C19_RemoveUnattachedAsserts ==
    [][(RemoveEntityCalled /\ ~Attached(last'.arg)) =>
          /\ last'.res = "assert"
          /\ status' = IF EntityIsValid(comp, last'.arg)
                       THEN "assert: RemoveEntity" ELSE "assert: operator->"]_vars

\* The run has ended in the assertion of RemoveEntity.
C19_Witness ==
    /\ status = "assert: RemoveEntity"
    /\ last.op = "RemoveEntity" /\ last.res = "assert"

(***************************************************************************)
(* C20.  GetComponentData(entity) (and GetComponentDataAsVoid) is not null *)
(* exactly when HasDataForEntity(entity); for a live entity that is not    *)
(* attached it is null, not a failure; for an attached one it is the       *)
(* payload allocated for that entity and for no other.                     *)
(***************************************************************************)
C20_QueryMatchesIndex ==
    /\ \A entity \in comp.valid :
          LET ptr == GetComponentData(pool, comp, entity)
          IN  /\ (ptr # PtrNull) <=> HasDataForEntity(comp, entity)
              /\ HasDataForEntity(comp, entity) <=> Attached(entity)
              /\ ~Attached(entity) => ptr = PtrNull
              /\ Attached(entity) =>
                    /\ ptr = PtrTo(comp.gSlot[entity])
                    /\ comp.entity[ptr.index] = entity
                    /\ ptr.index \in Range(UsedWalk(pool))
    /\ \A e1, e2 \in comp.valid :
          (Attached(e1) /\ Attached(e2) /\ e1 # e2) =>
              GetComponentData(pool, comp, e1) # GetComponentData(pool, comp, e2)
    /\ (status = "ok" /\ last.op = "GetComponentData") =>
          /\ comp.result = GetComponentData(pool, comp, last.arg)
          /\ last.res = IF Attached(last.arg) THEN "data" ELSE "null"

\* The entities a loop from begin() to end() over the component's data finds,
\* in order: iter->entity of every element of the used list.
EntityWalk(p, c) == [i \in 1 .. Len(UsedWalk(p)) |-> c.entity[UsedWalk(p)[i]]]

(***************************************************************************)
(* C21.  A loop from begin() to end() over a component's data visits the   *)
(* attached entities: one added with the default AddEntity comes after all *)
(* the others, and removing an entity leaves the others in the order they  *)
(* had.                                                                    *)
(***************************************************************************)
C21_AttachOrder ==
    [][/\ (/\ status = "ok" /\ last'.op = "AddEntity(entity)"
           /\ EntityIsValid(comp, last'.arg) /\ ~Attached(last'.arg))
          => /\ status' = "ok"
             /\ EntityWalk(pool', comp') = EntityWalk(pool, comp) \o <<last'.arg>>
       /\ (RemoveEntityCalled /\ last'.res = "removed")
          => EntityWalk(pool', comp') =
                Filter(EntityWalk(pool, comp), Entities \ {last'.arg})]_vars


(***************************************************************************)
(* The entity manager.                                                     *)
(***************************************************************************)

\* C22: every UpdateComponents call calls UpdateAllEntities once on each
\* registered component and on no other, the component registered first
\* (id 0) first, then the one registered next (id 1), and so on.
C22_UpdateOrder ==
    mgr.report.kind = "UpdateComponents"
        => /\ Len(mgr.report.ids) = Len(mgr.components_)
           /\ \A k \in 1 .. Len(mgr.report.ids) :
                 /\ mgr.report.ids[k] = k - 1
                 /\ mgr.component_id[mgr.components_[k]] = mgr.report.ids[k]

\* An update of two components, the one registered first not being the
\* first by name.
C22_Witness ==
    /\ mgr.report.kind = "UpdateComponents"
    /\ mgr.components_ = <<"B", "A">>
    /\ mgr.report.ids = <<0, 1>>

\* The entity has an element of its own in the pool of the component s.
StoreHolds(s, entity) ==
    \E k \in 1 .. Len(EntityWalk(s.component_data_, s)) :
        EntityWalk(s.component_data_, s)[k] = entity

HasEntity(s, entity) == StoreHolds(s, entity) \/ HasDataForEntity(s, entity)

\* C24: a DeleteMarkedEntities call that returns leaves every entity that
\* was on entities_to_delete_ with an invalid handle and in no component,
\* leaves every other live entity valid and in the components it was in,
\* and empties the list; with nothing on the list it changes nothing.
C24_DeleteMarkedEntities ==
    [][(last'.op = "DeleteMarkedEntities" /\ status' = "ok")
          => /\ \A ref \in Range(mgr.entities_to_delete_) :
                   /\ ~EntityRefIsValid(mgr', ref)
                   /\ \A t \in Components : ~HasEntity(mgr'.store[t], entity_id(ref))
             /\ \A i \in 1 .. Len(mgr.refs) :
                   LET ref == mgr.refs[i]
                   IN  (EntityRefIsValid(mgr, ref) /\ ~mgr.marked[ref.index_])
                          => /\ EntityRefIsValid(mgr', ref)
                             /\ ~mgr'.marked[ref.index_]
                             /\ \A t \in Components :
                                   /\ StoreHolds(mgr'.store[t], entity_id(ref))
                                         = StoreHolds(mgr.store[t], entity_id(ref))
                                   /\ HasDataForEntity(mgr'.store[t], entity_id(ref))
                                         = HasDataForEntity(mgr.store[t], entity_id(ref))
             /\ mgr'.entities_to_delete_ = <<>>
             /\ mgr.entities_to_delete_ = <<>>
                   => [mgr' EXCEPT !.report = mgr.report] = mgr]_vars

\* C25: a DeleteEntityImmediately call on a live entity that returns leaves
\* the entity's handle invalid and the entity in no component, and it
\* neither marks the entity nor puts it on entities_to_delete_.
C25_DeleteEntityImmediately ==
    [][(/\ last'.op = "DeleteEntityImmediately" /\ status' = "ok"
        /\ EntityRefIsValid(mgr, EntityRefOf(mgr, last'.arg)))
          => LET ref == EntityRefOf(mgr, last'.arg)
             IN  /\ ~EntityRefIsValid(mgr', ref)
                 /\ \A t \in Components : ~HasEntity(mgr'.store[t], entity_id(ref))
                 /\ ~mgr'.marked[ref.index_]
                 /\ mgr'.entities_to_delete_ = mgr.entities_to_delete_]_vars

\* The k-th registered component has id k - 1, its Init() has been called
\* once and GetComponent(k - 1) is that component; a component that is not
\* registered has had no Init() call and its class no id.
RegistryInOrder(m) ==
    /\ \A k \in 1 .. Len(m.components_) :
          /\ m.component_id[m.components_[k]] = k - 1
          /\ m.store[m.components_[k]].inits = 1
          /\ GetComponentAssert(m, k - 1)
          /\ GetComponent(m, k - 1) = m.components_[k]
    /\ \A t \in Components \ Range(m.components_) :
          /\ m.component_id[t] = kInvalidComponent
          /\ m.store[t].inits = 0

C27_NewEntityIsFresh ==
    [][(last'.op = "AllocateNewEntity" /\ status' = "ok" /\ mgr'.refs # mgr.refs)
          => LET ref == mgr'.refs[Len(mgr'.refs)]
             IN  /\ Len(mgr'.refs) = Len(mgr.refs) + 1
                 /\ ~(ref.index_ \in Range(UsedWalk(mgr.entities_)))
                 /\ EntityRefIsValid(mgr', ref)
                 /\ ~mgr'.marked[ref.index_]
                 /\ \A t \in Components : ~HasEntity(mgr'.store[t], entity_id(ref))
                 /\ \A i \in 1 .. Len(mgr.refs) :
                       entity_id(mgr.refs[i]) # entity_id(ref)]_vars

\* AllocateNewEntity has just given out the slot of an entity that was
\* marked for deletion and had component data when it was deleted.
C27_Witness ==
    /\ status = "ok"
    /\ last.op = "AllocateNewEntity"
    /\ Len(mgr.refs) = 2
    /\ mgr.refs[1].index_ = mgr.refs[2].index_
    /\ ~EntityRefIsValid(mgr, mgr.refs[1])
    /\ EntityRefIsValid(mgr, mgr.refs[2])
    /\ mgr.refs[2].index_ \in mgr.gMarkedAndAttached
    /\ ~mgr.marked[mgr.refs[2].index_]

\* C28: RemoveAllComponents on a live entity returns, no assertion of a
\* component failing; after it the entity is in no component, it is still
\* allocated with a valid handle and its mark as before, the entity pool
\* is as before, and every other entity is in the components it was in.
C28_RemoveAllComponents ==
    [][(/\ last'.op = "RemoveAllComponents" /\ status = "ok"
        /\ EntityRefIsValid(mgr, EntityRefOf(mgr, last'.arg))
        /\ <<mgr', last'>> # <<mgr, last>>)
          => LET ref == EntityRefOf(mgr, last'.arg)
             IN  /\ status' = "ok"
                 /\ \A t \in Components : ~HasEntity(mgr'.store[t], entity_id(ref))
                 /\ EntityRefIsValid(mgr', ref)
                 /\ mgr'.entities_ = mgr.entities_
                 /\ mgr'.marked = mgr.marked
                 /\ mgr'.entities_to_delete_ = mgr.entities_to_delete_
                 /\ \A i \in 1 .. Len(mgr.refs), t \in Components :
                       entity_id(mgr.refs[i]) # entity_id(ref)
                          => /\ StoreHolds(mgr'.store[t], entity_id(mgr.refs[i]))
                                = StoreHolds(mgr.store[t], entity_id(mgr.refs[i]))
                             /\ HasDataForEntity(mgr'.store[t], entity_id(mgr.refs[i]))
                                = HasDataForEntity(mgr.store[t], entity_id(mgr.refs[i]))]_vars

\* The component id a call resolves, or -1 if the call resolves none.
ResolvedId(m, call) ==
    CASE call.op = "GetComponent" -> call.arg
      [] call.op = "AddEntityToComponent" ->
            CHOOSE id \in ComponentIds : ToString(id) = call.loc
      [] call.op = "AddEntityToComponent<T>" -> m.component_id[call.loc]
      [] OTHER -> -1

C30_NeverDecreases ==
    \A i, j \in 1 .. Len(refs) :
        i < j => IdLess(refs[i].unique_id_, refs[j].unique_id_)

\* next_unique_id_ has not started again from kFirstId since the element of
\* the i-th handle was given out.
NoWrapSince(i) ==
    ~gReissued[i] /\ IdLess(refs[i].unique_id_, pool.next_unique_id_)

\* C30, amended: next_unique_id_ is never kInvalidId and never goes down,
\* but for the step from 2^32 - 1 back to kFirstId; an allocation stamps
\* the element with the value next_unique_id_ had and moves it on by one;
\* and an element given out later has the greater unique id as long as
\* next_unique_id_ has not started again in between.
C30_IncreasesUntilWrap ==
    [][status' = "ok"
          => /\ pool'.next_unique_id_ # kInvalidId
             /\ \/ pool'.next_unique_id_ = pool.next_unique_id_
                \/ IdLess(pool.next_unique_id_, pool'.next_unique_id_)
                \/ /\ last'.op = "GetNewElement"
                   /\ pool.next_unique_id_ = kMaxId
                   /\ pool'.next_unique_id_ = kFirstId
             /\ Len(refs') = Len(refs) + 1
                   => /\ refs'[Len(refs')].unique_id_ = pool.next_unique_id_
                      /\ pool'.next_unique_id_ =
                            IF pool.next_unique_id_ = kMaxId THEN kFirstId
                            ELSE IncId(pool.next_unique_id_)
             /\ \A i, j \in 1 .. Len(refs') :
                   (i < j /\ NoWrapSince(i)')
                      => IdLess(refs'[i].unique_id_, refs'[j].unique_id_)]_vars

\* next_unique_id_ has gone round: the second element got 2^32 - 1, the
\* third got kFirstId, like the first.
C30_Witness ==
    /\ status = "ok"
    /\ Len(refs) = 3
    /\ refs[1].unique_id_ = kFirstId
    /\ refs[2].unique_id_ = kMaxId
    /\ refs[3].unique_id_ = kFirstId
    /\ pool.next_unique_id_ = IncId(kFirstId)


\* C31: next_unique_id_ is never kInvalidId, so no element in the used list
\* and no handle GetNewElement gave out carries kInvalidId, also after
\* next_unique_id_ has gone past 2^32 - 1; the elements of the free list and
\* the empty handle do carry it.
C31_NeverStampsInvalid ==
    /\ pool.next_unique_id_ # kInvalidId
    /\ \A k \in 1 .. Len(UsedWalk(pool)) :
          pool.elements_[UsedWalk(pool)[k]].unique_id # kInvalidId
    /\ \A k \in 1 .. Len(FreeWalk(pool)) :
          pool.elements_[FreeWalk(pool)[k]].unique_id = kInvalidId
    /\ \A i \in 1 .. Len(refs) : refs[i].unique_id_ # kInvalidId
    /\ NullReference.unique_id_ = kInvalidId

\* The element after the one stamped 2^32 - 1 was stamped kFirstId, and both
\* are in the used list.
C31_Witness ==
    /\ status = "ok"
    /\ Len(refs) = 2
    /\ refs[1].unique_id_ = kMaxId /\ refs[2].unique_id_ = kFirstId
    /\ gState[1] = "live" /\ gState[2] = "live"
    /\ pool.elements_[refs[2].index_].unique_id = kFirstId
    /\ Len(UsedWalk(pool)) = 2


(***************************************************************************)
(* References as values.                                                   *)
(***************************************************************************)

\* The second operand of the comparison the client made last.
ComparedWith == Held(CHOOSE j \in 0 .. MaxHandles : ToString(j) = last.loc)

\* C32: a == b is true exactly when a and b are of the same pool (or both
\* of none) and have the same index, whatever their unique ids and whether
\* or not they are valid.
C32_EqualityIgnoresId ==
    (status = "ok" /\ last.op = "operator==")
        => (last.res = "true"
               <=> /\ Held(last.arg).container_ = ComparedWith.container_
                   /\ Held(last.arg).index_ = ComparedWith.index_)

\* A reference whose element was freed has compared equal to the reference
\* GetNewElement returned when the slot was given out again: the ids differ
\* and only the second is valid.
C32_Witness ==
    /\ status = "ok"
    /\ last.op = "operator==" /\ last.res = "true"
    /\ Held(last.arg).unique_id_ # ComparedWith.unique_id_
    /\ Held(last.arg).unique_id_ # kInvalidId
    /\ ComparedWith.unique_id_ # kInvalidId
    /\ HeldIsValidOutcomes(Held(last.arg)) = {"false"}
    /\ HeldIsValidOutcomes(ComparedWith) = {"true"}


\* The step is the call `op` of a component with the EntityRef last'.arg.
StoreCalled == status = "ok" /\ last'.op \in StoreCalls

\* The EntityRef is to an entity that is alive: the slot it names is inside
\* entities_ and carries the handle's own unique id.
EntityIsLive(m, ref) ==
    /\ ref.container_ # "nullptr"
    /\ InEntities(m, ref)
    /\ m.entities_.elements_[ref.index_].unique_id = ref.unique_id_

(***************************************************************************)
(* C33.  HasDataForEntity, GetComponentData, AddEntity and RemoveEntity    *)
(* of a component, called with an EntityRef that is empty or whose entity  *)
(* is no longer alive, end in the assertion of dereferencing the handle:   *)
(* they neither return an answer nor touch the component.                  *)
(***************************************************************************)
C33_StaleEntityFailsFast ==
    [][(StoreCalled /\ ~EntityIsLive(mgr, EntityRefOf(mgr, last'.arg)))
          => (last'.res = "assert" /\ status' # "ok")]_vars


\* The entity -> index map of the component and its pool agree.
IndexAgrees(p, c) ==
    LET map == c.component_index_lookup_
    IN  /\ Cardinality(DOMAIN map) + c.bulk = PoolActiveCount(p, c)
        /\ \A entity \in DOMAIN map :
              /\ HasDataForEntity(c, entity)
              /\ map[entity] >= kTotalReserved + c.bulk
              /\ map[entity] < PoolSize(p, c)
              /\ SlotOf(c, map[entity]) \in Range(UsedWalk(p))
              /\ c.entity[SlotOf(c, map[entity])] = entity
        /\ \A e1, e2 \in DOMAIN map : map[e1] = map[e2] => e1 = e2
        /\ \A slot \in Range(UsedWalk(p)) : c.entity[slot] \in DOMAIN map

(***************************************************************************)
(* C34.  After any AddEntity, RemoveEntity (by entity or by iterator) and  *)
(* ClearComponentData, the component's index has one entry per attached    *)
(* entity and as many as the pool has elements in use; every entry names a *)
(* slot of the used list that holds the entity mapping to it, and no two   *)
(* entities name the same slot.                                            *)
(***************************************************************************)
C34_IndexAgreesWithPool == status = "ok" => IndexAgrees(pool, comp)


\* The slot the reference names is an element in use of its container.
RefersToUsed(ref) ==
    /\ ref.container_ # "nullptr"
    /\ ref.index_ \in Range(UsedWalk(PoolOf(ref.container_)))

(***************************************************************************)
(* C35.  A reference for which IsValid() is true names a slot of the used  *)
(* list of its pool, however the reference was made: by GetNewElement, or  *)
(* by ToReference() of an iterator at end(), at a sentinel or at a freed   *)
(* slot.                                                                   *)
(***************************************************************************)
C35_ValidOnlyIfAllocated ==
    status = "ok" =>
        \A i \in 1 .. Len(hnd.held) :
            "true" \in HeldIsValidOutcomes(hnd.held[i]) => RefersToUsed(hnd.held[i])


\* The step is pool.Clear().
Cleared == status = "ok" /\ last'.op = "Clear"

\* ref.IsValid() reads an element of the vector and answers false.
ReadsInvalid(p, ref) == IsValidOutcomes(p, ref) = {"false"}

(***************************************************************************)
(* C36.  Clear() leaves active_count() 0, Size() 4 and begin() == end();   *)
(* IsValid() of every reference issued before it reads no slot outside the *)
(* vector and is false, right after the Clear() and after any allocations  *)
(* made since.                                                             *)
(***************************************************************************)
C36_ClearInvalidatesAll ==
    /\ [][Cleared =>
             /\ active_count(pool') = 0
             /\ Size(pool') = kTotalReserved
             /\ begin(pool') = end(pool')
             /\ \A i \in 1 .. Len(refs) : ReadsInvalid(pool', refs[i])]_vars
    /\ [](status = "ok" =>
             \A i \in 1 .. Len(refs) :
                 gState[i] = "cleared" => ReadsInvalid(pool, refs[i]))


\* next leads from slot to slot along the chain, and prev leads back.
Linked(p, chain) ==
    \A k \in 1 .. Len(chain) - 1 :
        /\ p.elements_[chain[k]].next = chain[k + 1]
        /\ p.elements_[chain[k + 1]].prev = chain[k]

(***************************************************************************)
(* C37.  In every state of a pool, next leads from kFirstUsed through the  *)
(* used slots to kLastUsed and from kFirstFree through the free slots to   *)
(* kLastFree without meeting a slot twice, prev leads back the same way, a *)
(* slot is in the used list exactly when its unique id is not kInvalidId,  *)
(* and (the counter not having wrapped) no two used slots carry the same   *)
(* unique id.                                                              *)
(***************************************************************************)
C37_ListsWellFormed ==
    LET u == UsedWalk(pool)
        f == FreeWalk(pool)
    IN  /\ NoRepeat(u) /\ NoRepeat(f)
        /\ Linked(pool, <<kFirstUsed>> \o u \o <<kLastUsed>>)
        /\ Linked(pool, <<kFirstFree>> \o f \o <<kLastFree>>)
        /\ \A index \in 0 .. Size(pool) - 1 :
              index \in Range(u) <=> pool.elements_[index].unique_id # kInvalidId
        /\ \A a, b \in Range(u) :
              pool.elements_[a].unique_id = pool.elements_[b].unique_id => a = b

\* Two elements in use, at either side in the vector of the one that was
\* freed from between them.
C37_Witness ==
    /\ status = "ok"
    /\ UsedWalk(pool) = <<kTotalReserved, kTotalReserved + 2>>
    /\ FreeWalk(pool) = <<kTotalReserved + 1>>
    /\ pool.elements_[kTotalReserved + 2].prev = kTotalReserved


\* The step is c.FreeElement(ref) returning, c = last'.loc, with a reference
\* that was made for an element of the other pool.
FreedWithForeign ==
    /\ status = "ok" /\ status' = "ok"
    /\ last'.op = "FreeElement(ref)"
    /\ Held(last'.arg).container_ \in Pools \ {last'.loc}

(***************************************************************************)
(* C38.  FreeElement(ref) on a pool, with a reference that is valid in a   *)
(* different pool, frees no element of the pool it is called on and        *)
(* changes none of its slots.                                              *)
(***************************************************************************)
C38_ForeignHandleFreesNothing ==
    [][FreedWithForeign =>
          IF last'.loc = "pool" THEN pool' = pool ELSE hnd'.other = hnd.other]_vars


(***************************************************************************)
(* C39.  The index a component records for an entity is the index of the   *)
(* element of component_data_ that was allocated for the entity, and is    *)
(* never kInvalidComponentIndex, whatever the size of the pool.            *)
(***************************************************************************)
C39_RecordedIndexIsSlot ==
    status = "ok" =>
        \A entity \in DOMAIN comp.component_index_lookup_ :
            /\ comp.component_index_lookup_[entity]
                  = PoolIndex(comp, comp.gSlot[entity])
            /\ comp.component_index_lookup_[entity] # kInvalidComponentIndex


\* The step is a call `op` of the manager that returns.
ManagerReturned(op) == status = "ok" /\ status' = "ok" /\ last'.op = op

\* The queued EntityRefs whose entity is alive.
QueuedLive(m) ==
    {ref \in Range(m.entities_to_delete_) : EntityRefIsValid(m, ref)}

(***************************************************************************)
(* C40.  DeleteEntity on an entity that is marked already queues nothing,  *)
(* so no EntityRef is twice on entities_to_delete_, and a                  *)
(* DeleteMarkedEntities that returns has deleted every queued live entity  *)
(* once: the entity pool has lost one element for each, every component    *)
(* one element for each that it held, the entities are in no component and *)
(* their handles invalid; and no entity that is not on the list is         *)
(* deleted, whichever slot it is in.                                       *)
(***************************************************************************)
C40_DeletedOnce ==
    [][/\ (/\ ManagerReturned("DeleteEntity")
           /\ mgr.marked[EntityRefOf(mgr, last'.arg).index_])
             => /\ mgr'.entities_to_delete_ = mgr.entities_to_delete_
                /\ mgr'.marked = mgr.marked
       /\ ManagerReturned("DeleteMarkedEntities")
             => LET q == mgr.entities_to_delete_
                IN  /\ \A j, k \in 1 .. Len(q) : q[j] = q[k] => j = k
                    /\ active_count(mgr'.entities_)
                          = active_count(mgr.entities_) - Cardinality(QueuedLive(mgr))
                    /\ \A t \in Components :
                          active_count(mgr'.store[t].component_data_)
                             = active_count(mgr.store[t].component_data_)
                                  - Cardinality({ref \in QueuedLive(mgr) :
                                        HasEntity(mgr.store[t], entity_id(ref))})
                    /\ \A ref \in QueuedLive(mgr) :
                          /\ ~EntityRefIsValid(mgr', ref)
                          /\ \A t \in Components :
                                ~HasEntity(mgr'.store[t], entity_id(ref))
                    /\ \A i \in 1 .. Len(mgr.refs) :
                          (/\ EntityRefIsValid(mgr, mgr.refs[i])
                           /\ mgr.refs[i] \notin Range(q))
                             => EntityRefIsValid(mgr', mgr.refs[i])]_vars

============================================================================
